---- MODULE Spec2Model ----
(***************************************************************************)
(* A model of the logf logger (zerodha/logf).                              *)
(*                                                                         *)
(* Spec    : the pooled-buffer Logger of src/unnamed/part_001 together     *)
(*           with the FieldLogger and byteBufferPool of                    *)
(*           src/field_logger.go, driven by concurrent goroutines and a    *)
(*           goroutine that calls the setters.                             *)
(* SpecV1  : the mutex-and-map Logger of src/log.go (lines 1-292), whose   *)
(*           WithFields stores the fields in the Logger itself.            *)
(* SpecLevel : Level.String and LevelFromString as pure functions.         *)
(* SpecEsc : the encoder of src/unnamed/part_001 (writeToBuf,              *)
(*           escapeAndWriteString, writeQuotedString, handleLog) over      *)
(*           bytes, applied to one value.                                  *)
(* SpecArgs : a call with positional key/value arguments and default       *)
(*           fields.                                                       *)
(* SpecDyn : Spec's log calls with repeated SetLevel calls.                *)
(* SpecKeys : Spec's log calls with user fields named like fixed keys.     *)
(* SpecOrder : log calls that remember which calls returned before them.   *)
(* SpecLive : log calls and SetWriter under fair scheduling.               *)
(***************************************************************************)
EXTENDS Integers, Sequences, FiniteSets, TLC

VARIABLES
    level,                 \* Logger.level
    tsFormat,              \* Logger.tsFormat
    enableColor,           \* Logger.enableColor
    enableCaller,          \* Logger.enableCaller
    callerSkipFrameCount,  \* Logger.callerSkipFrameCount
    out,                   \* Logger.out: which writer the logger points at
    mu,                    \* Logger.mu: "free" or the goroutine holding it
    v1,                    \* Logger.fields and Logger.buf of the Logger of src/log.go:20
    pool,                  \* bufPool: the byteBuffers resting in the pool
    bufs,                  \* contents of every byteBuffer object (byteBuffer.B)
    sink,                  \* the bytes.Buffer behind the writer "buf"
    stdlog,                \* what was printed through the standard logger
    exitStatus,            \* 0 while the process runs, 1 after os.Exit(1)
    pc,                    \* per goroutine: position in its current call
    call,                  \* per goroutine: the call in progress
    handle,                \* per goroutine: the handle WithFields/WithError gave it
    loc,                   \* per goroutine: locals of handleLog
    done,                  \* history: the outcome of every finished log call
    spc,                   \* the setter goroutine: position
    sreq,                  \* the setter goroutine: the setter call in progress
    nsets,                 \* setter calls started so far
    lin, lout,             \* Level.String: argument and result
    pin, pout,             \* LevelFromString: argument and result
    rt,                    \* String() of the level LevelFromString returned
    esc,                   \* the escaper applied to one value: input, step, results
    kv                     \* a key/value argument list and the pairs made of it

cfgvars == <<level, tsFormat, enableColor, enableCaller, callerSkipFrameCount, out>>
logvars == <<mu, v1, pool, bufs, sink, stdlog, exitStatus>>
govars  == <<pc, call, handle, loc, done>>
setvars == <<spc, sreq, nsets>>
fmtvars == <<esc, kv>>
lvlvars == <<lin, lout, pin, pout, rt, fmtvars>>
vars    == <<cfgvars, logvars, govars, setvars, lvlvars>>

(***************************************************************************)
(* Bounds of the model.                                                    *)
(***************************************************************************)
MaxCalls == 2      \* log calls the goroutines make in all
MaxSets  == 1      \* setter calls the setter goroutine makes
ChunkLen == 3      \* key/value pairs the sink copies per step of one Write
MaxLvlArg == 6     \* Level.String is applied to -MaxLvlArg .. MaxLvlArg + 4

Threads == {"g1", "g2"}
Setter  == "setter"
BufIds  == {1, 2}

(***************************************************************************)
(* Levels.                                                                 *)
(***************************************************************************)
DebugLevel == 0
InfoLevel  == 1
WarnLevel  == 2
ErrorLevel == 3
FatalLevel == 4
Levels == DebugLevel .. FatalLevel

LevelStringWarning(l) ==
    CASE l = DebugLevel -> "debug"
      [] l = InfoLevel  -> "info"
      [] l = WarnLevel  -> "warning"
      [] l = ErrorLevel -> "error"
      [] l = FatalLevel -> "fatal"
      [] OTHER          -> "invalid lvl"

LevelStringNoFatal(l) ==
    CASE l = DebugLevel -> "debug"
      [] l = InfoLevel  -> "info"
      [] l = WarnLevel  -> "warn"
      [] l = ErrorLevel -> "error"
      [] OTHER          -> "invalid lvl"

\* func (l Level) String() string
LevelString(l) ==
    CASE l = DebugLevel -> "debug"
      [] l = InfoLevel  -> "info"
      [] l = WarnLevel  -> "warn"
      [] l = ErrorLevel -> "error"
      [] l = FatalLevel -> "fatal"
      [] OTHER          -> "invalid lvl"

\* LevelFromString(s) (Level, error): the level named s, or the error
\* for a name that is no level's name.
NoParse == [lvl |-> -1, err |-> "pending"]
LevelFromStringLenient(s) ==
    CASE s = "info"  -> [lvl |-> InfoLevel,  err |-> ""]
      [] s = "warn"  -> [lvl |-> WarnLevel,  err |-> ""]
      [] s = "error" -> [lvl |-> ErrorLevel, err |-> ""]
      [] s = "fatal" -> [lvl |-> FatalLevel, err |-> ""]
      [] OTHER       -> [lvl |-> DebugLevel, err |-> ""]

LevelFromString(s) ==
    CASE s = "debug" -> [lvl |-> DebugLevel, err |-> ""]
      [] s = "info"  -> [lvl |-> InfoLevel,  err |-> ""]
      [] s = "warn"  -> [lvl |-> WarnLevel,  err |-> ""]
      [] s = "error" -> [lvl |-> ErrorLevel, err |-> ""]
      [] s = "fatal" -> [lvl |-> FatalLevel, err |-> ""]
      [] OTHER       -> [lvl |-> 0, err |-> "invalid level"]

DiscardedUpTo(lvl, minLevel) == lvl <= minLevel

\* if lvl < l.level { return }
Discarded(lvl, minLevel) == lvl < minLevel

(***************************************************************************)
(* Colours.                                                                *)
(***************************************************************************)
\* var colorLvlMap = [...]string{...}
colorLvlMap(lvl) ==
    CASE lvl = DebugLevel -> "purple"
      [] lvl = InfoLevel  -> "cyan"
      [] lvl = WarnLevel  -> "yellow"
      [] lvl = ErrorLevel -> "red"
      [] lvl = FatalLevel -> "red"

\* The colour a key is wrapped in: "" when colour is off, else the level's
\* code (getColoredKey appends the reset code after the key).
KeyColor(lvl, color) == IF color THEN colorLvlMap(lvl) ELSE ""

(***************************************************************************)
(* The line buffer.  A buffer is a sequence of pairs; each pair records    *)
(* the key text, the colour wrapped around the key, whether a separate '=' *)
(* byte follows the key, the value text and whether a space follows.  The  *)
(* field o (owner) names the call that appended the pair.                  *)
(***************************************************************************)
tsKey == "timestamp="
defaultTSFormat == "2006-01-02T15:04:05.999Z07:00"
RFC3339Nano == "2006-01-02T15:04:05.999999999Z07:00"

Pair(k, c, eq, v, sp, o) == [k |-> k, c |-> c, eq |-> eq, v |-> v, sp |-> sp, o |-> o]

\* func writeTimeToBuf(buf, format, lvl, color): the key is "timestamp=",
\* coloured as a whole, then the time in the given format, then a space.
writeTimeToBuf(B, format, lvl, color, o) ==
    Append(B, Pair(tsKey, KeyColor(lvl, color), FALSE, format, TRUE, o))

\* func writeToBuf(buf, key, val, lvl, color, space)
writeToBuf(B, key, val, lvl, color, space, o) ==
    Append(B, Pair(key, KeyColor(lvl, color), TRUE, val, space, o))

\* func writeStringToBuf(buf, key, val, lvl, color, space)
writeStringToBuf(B, key, val, lvl, color, space, o) ==
    Append(B, Pair(key, KeyColor(lvl, color), TRUE, val, space, o))

\* buf.AppendString("\n")
AppendNewline(B, o) == Append(B, Pair("\n", "", FALSE, "", FALSE, o))

\* func caller(depth int) string: runtime.Caller(depth) resolves the frames
\* that exist and fails beyond them.
caller(depth) ==
    CASE depth = 0 -> "log.go:316"
      [] depth = 3 -> "main.go:14"
      [] OTHER     -> "???:0"

(***************************************************************************)
(* Calls.                                                                  *)
(***************************************************************************)
Methods == {"Debug", "Info", "Warn", "Error", "Fatal"}

\* The level each method of Logger hands to handleLog.
LoggerMethodLevel(m) ==
    CASE m = "Debug" -> DebugLevel
      [] m = "Info"  -> InfoLevel
      [] m = "Warn"  -> WarnLevel
      [] m = "Error" -> ErrorLevel
      [] m = "Fatal" -> FatalLevel

\* The level each method of FieldLogger hands to handleLog
\* (FieldLogger.Fatal passes ErrorLevel).
FieldLoggerMethodLevel(m) ==
    CASE m = "Debug" -> DebugLevel
      [] m = "Info"  -> InfoLevel
      [] m = "Warn"  -> WarnLevel
      [] m = "Error" -> ErrorLevel
      [] m = "Fatal" -> ErrorLevel

\* Fields is a map: a set of <<key, value>> with distinct keys.  nil is {}.
NoFields == {}
FieldsOf(t) ==
    IF t = "g1" THEN {<<"component", "api">>}
                ELSE {<<"request_id", "3MG91VKP">>, <<"ip", "1.1.1.1">>}
ErrText == "this is a fake error"

NoHandle == [has |-> FALSE, fields |-> NoFields]
NoCall   == [recv |-> "none", meth |-> "none", n |-> 0, lvl |-> 0, fields |-> NoFields]
NoLoc    == [buf |-> 0, fmt |-> "", skip |-> 0, todo |-> NoFields, count |-> 0,
             seen |-> 0, wi |-> 0, err |-> "", keys |-> <<>>, om |-> NoFields,
             line |-> <<>>, nw |-> 0]

Owner(t) == <<t, call[t].n>>
Running == exitStatus = 0

(***************************************************************************)
(* Initial state: logf.New() (src/unnamed/part_001, 85-95).                *)
(***************************************************************************)
NoReq == [op |-> "none", lv |-> 0, s |-> "", b |-> FALSE, n |-> 0]

InitCommon ==
    /\ level = InfoLevel
    /\ tsFormat = defaultTSFormat
    /\ enableColor = FALSE
    /\ enableCaller = FALSE
    /\ callerSkipFrameCount = 0
    /\ out = "buf"
    /\ mu = "free"
    /\ v1 = [fields |-> NoFields, buf |-> <<>>]
    /\ pool = {}
    /\ bufs = [b \in BufIds |-> <<>>]
    /\ sink = <<>>
    /\ stdlog = <<>>
    /\ exitStatus = 0
    /\ pc = [t \in Threads |-> "idle"]
    /\ call = [t \in Threads |-> NoCall]
    /\ handle = [t \in Threads |-> NoHandle]
    /\ loc = [t \in Threads |-> NoLoc]
    /\ done = {}
    /\ spc = "idle"
    /\ sreq = NoReq
    /\ nsets = 0

NoEsc == [pc |-> "idle"]
NoKv  == [pc |-> "idle"]
InitFmtIdle == esc = NoEsc /\ kv = NoKv

InitLevelIdle ==
    /\ lin = 0 /\ lout = "" /\ pin = "" /\ pout = NoParse /\ rt = ""
    /\ InitFmtIdle

Init == InitCommon /\ InitLevelIdle

(***************************************************************************)
(* Goroutines: deriving handles and starting log calls.                    *)
(***************************************************************************)
Calls(t) == Cardinality({d \in done : d.t = t})
Started == Cardinality(done)
           + Cardinality({t \in Threads : pc[t] \notin {"idle", "derived", "exit", "exited"}})

\* What each goroutine of the driver calls: g1 calls every method on the
\* Logger and on derived handles, g2 runs genLogs of TestLoggerConcurrency,
\* l.WithFields(Fields{...}).Info("random log").
LoggerCallers == {"g1"}
ErrorCallers  == {"g1"}
MethodsOf(t)  == IF t = "g1" THEN Methods ELSE {"Info"}

\* func (l *Logger) WithFields(fields Fields) *FieldLogger: a new
\* FieldLogger that holds the fields and points at the Logger.
WithFields(t, F) ==
    /\ Running /\ pc[t] = "idle" /\ Started < MaxCalls
    /\ handle' = [handle EXCEPT ![t] = [has |-> TRUE, fields |-> F]]
    /\ pc' = [pc EXCEPT ![t] = "derived"]
    /\ UNCHANGED <<cfgvars, logvars, call, loc, done, setvars, lvlvars>>

\* func (l *Logger) WithError(err error) *FieldLogger: nil gives a
\* FieldLogger without fields, otherwise WithFields({"error": err.Error()}).
WithError(t, e) ==
    /\ Running /\ pc[t] = "idle" /\ Started < MaxCalls
    /\ t \in ErrorCallers
    /\ handle' = [handle EXCEPT ![t] =
                    IF e = "nil" THEN [has |-> TRUE, fields |-> NoFields]
                                 ELSE [has |-> TRUE, fields |-> {<<"error", e>>}]]
    /\ pc' = [pc EXCEPT ![t] = "derived"]
    /\ UNCHANGED <<cfgvars, logvars, call, loc, done, setvars, lvlvars>>

\* Logger.Debug/Info/Warn/Error/Fatal: l.handleLog(msg, <level>, nil)
LoggerCall(t, m) ==
    /\ Running /\ pc[t] = "idle" /\ Started < MaxCalls
    /\ t \in LoggerCallers /\ m \in MethodsOf(t)
    /\ call' = [call EXCEPT ![t] = [recv |-> "base", meth |-> m, n |-> Calls(t) + 1,
                                    lvl |-> LoggerMethodLevel(m), fields |-> NoFields]]
    /\ pc' = [pc EXCEPT ![t] = "filter"]
    /\ loc' = [loc EXCEPT ![t] = NoLoc]
    /\ UNCHANGED <<cfgvars, logvars, handle, done, setvars, lvlvars>>

\* FieldLogger.Debug/Info/Warn/Error/Fatal:
\* l.logger.handleLog(msg, <level>, l.fields)
FieldLoggerCall(t, m) ==
    /\ Running /\ pc[t] = "derived" /\ Started < MaxCalls
    /\ handle[t].has /\ m \in MethodsOf(t)
    /\ call' = [call EXCEPT ![t] = [recv |-> "field", meth |-> m, n |-> Calls(t) + 1,
                                    lvl |-> FieldLoggerMethodLevel(m),
                                    fields |-> handle[t].fields]]
    /\ pc' = [pc EXCEPT ![t] = "filter"]
    /\ loc' = [loc EXCEPT ![t] = NoLoc]
    /\ handle' = [handle EXCEPT ![t] = NoHandle]
    /\ UNCHANGED <<cfgvars, logvars, done, setvars, lvlvars>>

(***************************************************************************)
(* Logger.handleLog (src/unnamed/part_001, 193-236), one action per        *)
(* access to state that other goroutines share.                            *)
(***************************************************************************)
Outcome(t, passed) ==
    [t |-> t, n |-> call[t].n, recv |-> call[t].recv, meth |-> call[t].meth,
     lvl |-> call[t].lvl, fields |-> call[t].fields,
     seen |-> IF passed THEN loc[t].seen ELSE level,
     passed |-> passed, err |-> loc[t].err,
     writes |-> loc[t].nw, got |-> loc[t].buf # 0]

\* Where a goroutine goes when handleLog returns: Fatal goes on to
\* os.Exit(1), every other method is finished.
AfterReturn(t) == IF call[t].meth = "Fatal" THEN "exit" ELSE "idle"

\* if lvl < l.level { return }
Filter(t) ==
    /\ Running /\ pc[t] = "filter"
    /\ IF Discarded(call[t].lvl, level)
          THEN /\ pc' = [pc EXCEPT ![t] = AfterReturn(t)]
               /\ done' = done \cup {Outcome(t, FALSE)}
               /\ loc' = loc
          ELSE /\ pc' = [pc EXCEPT ![t] = "get"]
               /\ loc' = [loc EXCEPT ![t].seen = level]
               /\ done' = done
    /\ UNCHANGED <<cfgvars, logvars, call, handle, setvars, lvlvars>>

Held == {loc[t].buf : t \in Threads} \ {0}

GetChoicesShared == BufIds

\* The byteBuffers bufPool.Get() may hand to a goroutine: one resting in the
\* pool, or a new one (the lowest unused object).
GetChoices ==
    LET free == BufIds \ (Held \cup pool)
    IN  pool \cup (IF free = {} THEN {} ELSE {CHOOSE b \in free : \A c \in free : b <= c})

\* buf := bufPool.Get()
Get(t) ==
    /\ Running /\ pc[t] = "get"
    /\ \E b \in GetChoices :
         /\ loc' = [loc EXCEPT ![t].buf = b]
         /\ pool' = pool \ {b}
         /\ bufs' = IF b \in pool THEN bufs ELSE [bufs EXCEPT ![b] = <<>>]
    /\ pc' = [pc EXCEPT ![t] = "tsfmt"]
    /\ UNCHANGED <<cfgvars, mu, v1, sink, stdlog, exitStatus, call, handle, done,
                   setvars, lvlvars>>

\* writeTimeToBuf(buf, l.tsFormat, lvl, l.enableColor): the two fields are
\* read one after the other.
ReadTsFormat(t) ==
    /\ Running /\ pc[t] = "tsfmt"
    /\ loc' = [loc EXCEPT ![t].fmt = tsFormat]
    /\ pc' = [pc EXCEPT ![t] = "ts"]
    /\ UNCHANGED <<cfgvars, logvars, call, handle, done, setvars, lvlvars>>

WriteTime(t) ==
    /\ Running /\ pc[t] = "ts"
    /\ bufs' = [bufs EXCEPT ![loc[t].buf] =
                  writeTimeToBuf(@, loc[t].fmt, call[t].lvl, enableColor, Owner(t))]
    /\ pc' = [pc EXCEPT ![t] = "level"]
    /\ UNCHANGED <<cfgvars, mu, v1, pool, sink, stdlog, exitStatus, call, handle,
                   loc, done, setvars, lvlvars>>

\* writeToBuf(buf, "level", lvl, lvl, l.enableColor, true): a Level is a
\* fmt.Stringer, so the value is lvl.String().
WriteLevel(t) ==
    /\ Running /\ pc[t] = "level"
    /\ bufs' = [bufs EXCEPT ![loc[t].buf] =
                  writeToBuf(@, "level", LevelString(call[t].lvl), call[t].lvl,
                             enableColor, TRUE, Owner(t))]
    /\ pc' = [pc EXCEPT ![t] = "message"]
    /\ UNCHANGED <<cfgvars, mu, v1, pool, sink, stdlog, exitStatus, call, handle,
                   loc, done, setvars, lvlvars>>

\* writeStringToBuf(buf, "message", msg, lvl, l.enableColor, true)
WriteMessage(t) ==
    /\ Running /\ pc[t] = "message"
    /\ bufs' = [bufs EXCEPT ![loc[t].buf] =
                  writeStringToBuf(@, "message", "msg", call[t].lvl,
                                   enableColor, TRUE, Owner(t))]
    /\ pc' = [pc EXCEPT ![t] = "callerchk"]
    /\ UNCHANGED <<cfgvars, mu, v1, pool, sink, stdlog, exitStatus, call, handle,
                   loc, done, setvars, lvlvars>>

\* if l.enableCaller {
CheckCaller(t) ==
    /\ Running /\ pc[t] = "callerchk"
    /\ pc' = [pc EXCEPT ![t] = IF enableCaller THEN "callerskip" ELSE "fields"]
    /\ loc' = [loc EXCEPT ![t].todo = call[t].fields, ![t].count = 0]
    /\ UNCHANGED <<cfgvars, logvars, call, handle, done, setvars, lvlvars>>

\* caller(l.callerSkipFrameCount), evaluated before l.enableColor is read
ReadCallerSkip(t) ==
    /\ Running /\ pc[t] = "callerskip"
    /\ loc' = [loc EXCEPT ![t].skip = callerSkipFrameCount]
    /\ pc' = [pc EXCEPT ![t] = "caller"]
    /\ UNCHANGED <<cfgvars, logvars, call, handle, done, setvars, lvlvars>>

\* writeToBuf(buf, "caller", caller(...), lvl, l.enableColor, true)
WriteCaller(t) ==
    /\ Running /\ pc[t] = "caller"
    /\ bufs' = [bufs EXCEPT ![loc[t].buf] =
                  writeToBuf(@, "caller", caller(loc[t].skip), call[t].lvl,
                             enableColor, TRUE, Owner(t))]
    /\ pc' = [pc EXCEPT ![t] = "fields"]
    /\ UNCHANGED <<cfgvars, mu, v1, pool, sink, stdlog, exitStatus, call, handle,
                   loc, done, setvars, lvlvars>>

\* for k, v := range fields { space := count != len(fields)-1;
\*   writeToBuf(buf, k, v, lvl, l.enableColor, space); count++ }
\* The order in which range visits a map is not specified.
WriteField(t) ==
    /\ Running /\ pc[t] = "fields" /\ loc[t].todo # {}
    /\ \E f \in loc[t].todo :
         /\ bufs' = [bufs EXCEPT ![loc[t].buf] =
                       writeToBuf(@, f[1], f[2], call[t].lvl, enableColor,
                                  loc[t].count # Cardinality(call[t].fields) - 1,
                                  Owner(t))]
         /\ loc' = [loc EXCEPT ![t].todo = @ \ {f}, ![t].count = @ + 1]
    /\ UNCHANGED <<cfgvars, mu, v1, pool, sink, stdlog, exitStatus, pc, call, handle,
                   done, setvars, lvlvars>>

\* buf.AppendString("\n")
WriteNewline(t) ==
    /\ Running /\ pc[t] = "fields" /\ loc[t].todo = {}
    /\ bufs' = [bufs EXCEPT ![loc[t].buf] = AppendNewline(@, Owner(t))]
    /\ pc' = [pc EXCEPT ![t] = "lock"]
    /\ UNCHANGED <<cfgvars, mu, v1, pool, sink, stdlog, exitStatus, call, handle,
                   loc, done, setvars, lvlvars>>

\* sync.Mutex.Lock returns only when no goroutine holds the mutex.
CanLockAlways(g) == TRUE

CanLock(g) == mu = "free"

\* l.mu.Lock()
Lock(t) ==
    /\ Running /\ pc[t] = "lock"
    /\ CanLock(t)
    /\ mu' = t
    /\ pc' = [pc EXCEPT ![t] = "write"]
    /\ UNCHANGED <<cfgvars, v1, pool, bufs, sink, stdlog, exitStatus, call, handle,
                   loc, done, setvars, lvlvars>>

Min(a, b) == IF a <= b THEN a ELSE b

\* What the writer l.out points at does with a Write: the bytes.Buffer takes
\* every byte and returns nil, errWriter takes none and returns an error.
WriterErr(w) == IF w = "errw" THEN "dummy error" ELSE ""

LogWriteErrSilent(log, err, o) == log

\* if err != nil { stdlog.Printf("error logging: %v", err) }
LogWriteErr(log, err, o) ==
    IF err # "" THEN Append(log, [text |-> "error logging: ", err |-> err, o |-> o])
                ELSE log

SinkWriteFront(snk, p) == p \o snk

\* bytes.Buffer.Write(p) appends p to what the buffer holds.
SinkWrite(snk, p) == snk \o p

WriteCallsPerChunk(n, entering) == n + 1

\* The calls of l.out.Write a log call has made: handleLog calls it once,
\* the copying inside the writer is no further call.
WriteCalls(n, entering) == IF entering THEN n + 1 ELSE n

\* _, err := l.out.Write(buf.Bytes()): the call enters the writer.  The
\* bytes.Buffer copies the line ChunkLen pairs at a time.
Write(t) ==
    /\ Running /\ pc[t] \in {"write", "writing"}
    /\ LET B   == bufs[loc[t].buf]
           err == WriterErr(out)
           to  == Min(loc[t].wi + ChunkLen, Len(B))
           fin == err # "" \/ to = Len(B)
       IN  /\ sink' = IF err # "" THEN sink
                      ELSE SinkWrite(sink, SubSeq(B, loc[t].wi + 1, to))
           /\ loc' = [loc EXCEPT ![t].wi = IF err # "" THEN @ ELSE to,
                                 ![t].err = err,
                                 ![t].nw = WriteCalls(@, pc[t] = "write")]
           /\ stdlog' = IF fin THEN LogWriteErr(stdlog, err, Owner(t)) ELSE stdlog
           /\ pc' = [pc EXCEPT ![t] = IF fin THEN "unlock" ELSE "writing"]
    /\ UNCHANGED <<cfgvars, mu, v1, pool, bufs, exitStatus, call, handle, done,
                   setvars, lvlvars>>

UnlockKept(t) ==
    /\ Running /\ pc[t] = "unlock"
    /\ pc' = [pc EXCEPT ![t] = "reset"]
    /\ UNCHANGED <<cfgvars, mu, v1, pool, bufs, sink, stdlog, exitStatus, call, handle,
                   loc, done, setvars, lvlvars>>

\* l.mu.Unlock()
Unlock(t) ==
    /\ Running /\ pc[t] = "unlock"
    /\ mu' = "free"
    /\ pc' = [pc EXCEPT ![t] = "reset"]
    /\ UNCHANGED <<cfgvars, v1, pool, bufs, sink, stdlog, exitStatus, call, handle,
                   loc, done, setvars, lvlvars>>

\* buf.Reset()
Reset(t) ==
    /\ Running /\ pc[t] = "reset"
    /\ bufs' = [bufs EXCEPT ![loc[t].buf] = <<>>]
    /\ pc' = [pc EXCEPT ![t] = "put"]
    /\ UNCHANGED <<cfgvars, mu, v1, pool, sink, stdlog, exitStatus, call, handle,
                   loc, done, setvars, lvlvars>>

PutDropped(t) ==
    /\ Running /\ pc[t] = "put"
    /\ bufs' = [bufs EXCEPT ![loc[t].buf] = <<>>]
    /\ done' = done \cup {Outcome(t, TRUE)}
    /\ loc' = [loc EXCEPT ![t].buf = 0]
    /\ pc' = [pc EXCEPT ![t] = AfterReturn(t)]
    /\ UNCHANGED <<cfgvars, mu, v1, pool, sink, stdlog, exitStatus, call, handle,
                   setvars, lvlvars>>

\* bufPool.Put(buf): bb.Reset(); bbp.p.Put(bb).  handleLog returns.
Put(t) ==
    /\ Running /\ pc[t] = "put"
    /\ bufs' = [bufs EXCEPT ![loc[t].buf] = <<>>]
    /\ pool' = pool \cup {loc[t].buf}
    /\ done' = done \cup {Outcome(t, TRUE)}
    /\ loc' = [loc EXCEPT ![t].buf = 0]
    /\ pc' = [pc EXCEPT ![t] = AfterReturn(t)]
    /\ UNCHANGED <<cfgvars, mu, v1, sink, stdlog, exitStatus, call, handle,
                   setvars, lvlvars>>

\* os.Exit(1): the process ends, no goroutine takes another step.
Exit(t) ==
    /\ Running /\ pc[t] = "exit"
    /\ exitStatus' = 1
    /\ pc' = [pc EXCEPT ![t] = "exited"]
    /\ UNCHANGED <<cfgvars, mu, v1, pool, bufs, sink, stdlog, call, handle, loc,
                   done, setvars, lvlvars>>

(***************************************************************************)
(* The setters (src/unnamed/part_001, 115-142), called by one more         *)
(* goroutine.  Each assignment to a field of the Logger is one action.     *)
(***************************************************************************)
TsFormats == {RFC3339Nano}
Colors    == {TRUE}
Frames    == {<<TRUE, 3>>}
Writers   == {"errw"}
SetLevelArgs == Levels

Requests ==
    {[op |-> "SetLevel", lv |-> l, s |-> "", b |-> FALSE, n |-> 0] : l \in SetLevelArgs}
    \cup {[op |-> "SetTimestampFormat", lv |-> 0, s |-> f, b |-> FALSE, n |-> 0] :
             f \in TsFormats}
    \cup {[op |-> "SetColorOutput", lv |-> 0, s |-> "", b |-> c, n |-> 0] : c \in Colors}
    \cup {[op |-> "SetCallerFrame", lv |-> 0, s |-> "", b |-> f[1], n |-> f[2]] :
             f \in Frames}
    \cup {[op |-> "SetWriter", lv |-> 0, s |-> w, b |-> FALSE, n |-> 0] : w \in Writers}

\* A goroutine calls a setter.
SetBegin(r) ==
    /\ Running /\ spc = "idle" /\ nsets < MaxSets
    /\ sreq' = r
    /\ spc' = IF r.op = "SetWriter" THEN "lock" ELSE "write"
    /\ nsets' = nsets + 1
    /\ UNCHANGED <<cfgvars, logvars, govars, lvlvars>>

SetLevelRaiseOnly ==
    /\ Running /\ spc = "write" /\ sreq.op = "SetLevel"
    /\ level' = IF sreq.lv > level THEN sreq.lv ELSE level
    /\ spc' = "idle"
    /\ UNCHANGED <<tsFormat, enableColor, enableCaller, callerSkipFrameCount, out,
                   logvars, govars, sreq, nsets, lvlvars>>

\* func (l *Logger) SetLevel(lvl Level) { l.level = lvl }
SetLevel ==
    /\ Running /\ spc = "write" /\ sreq.op = "SetLevel"
    /\ level' = sreq.lv
    /\ spc' = "idle"
    /\ UNCHANGED <<tsFormat, enableColor, enableCaller, callerSkipFrameCount, out,
                   logvars, govars, sreq, nsets, lvlvars>>

\* func (l *Logger) SetTimestampFormat(f string) { l.tsFormat = f }
SetTimestampFormat ==
    /\ Running /\ spc = "write" /\ sreq.op = "SetTimestampFormat"
    /\ tsFormat' = sreq.s
    /\ spc' = "idle"
    /\ UNCHANGED <<level, enableColor, enableCaller, callerSkipFrameCount, out,
                   logvars, govars, sreq, nsets, lvlvars>>

\* func (l *Logger) SetColorOutput(color bool) { l.enableColor = color }
SetColorOutput ==
    /\ Running /\ spc = "write" /\ sreq.op = "SetColorOutput"
    /\ enableColor' = sreq.b
    /\ spc' = "idle"
    /\ UNCHANGED <<level, tsFormat, enableCaller, callerSkipFrameCount, out,
                   logvars, govars, sreq, nsets, lvlvars>>

\* func (l *Logger) SetCallerFrame(caller bool, depth int):
\* l.enableCaller = caller
SetCallerFrameEnable ==
    /\ Running /\ spc = "write" /\ sreq.op = "SetCallerFrame"
    /\ enableCaller' = sreq.b
    /\ spc' = "write2"
    /\ UNCHANGED <<level, tsFormat, enableColor, callerSkipFrameCount, out,
                   logvars, govars, sreq, nsets, lvlvars>>

\* l.callerSkipFrameCount = depth
SetCallerFrameDepth ==
    /\ Running /\ spc = "write2"
    /\ callerSkipFrameCount' = sreq.n
    /\ spc' = "idle"
    /\ UNCHANGED <<level, tsFormat, enableColor, enableCaller, out,
                   logvars, govars, sreq, nsets, lvlvars>>

\* func (l *Logger) SetWriter(w io.Writer): l.mu.Lock()
SetWriterLock ==
    /\ Running /\ spc = "lock"
    /\ CanLock(Setter)
    /\ mu' = Setter
    /\ spc' = "lockedwrite"
    /\ UNCHANGED <<cfgvars, v1, pool, bufs, sink, stdlog, exitStatus, govars,
                   sreq, nsets, lvlvars>>

\* l.out = w
SetWriterAssign ==
    /\ Running /\ spc = "lockedwrite"
    /\ out' = sreq.s
    /\ spc' = "unlock"
    /\ UNCHANGED <<level, tsFormat, enableColor, enableCaller, callerSkipFrameCount,
                   logvars, govars, sreq, nsets, lvlvars>>

\* l.mu.Unlock()
SetWriterUnlock ==
    /\ Running /\ spc = "unlock"
    /\ mu' = "free"
    /\ spc' = "idle"
    /\ UNCHANGED <<cfgvars, v1, pool, bufs, sink, stdlog, exitStatus, govars,
                   sreq, nsets, lvlvars>>

SetterStep ==
    \/ \E r \in Requests : SetBegin(r)
    \/ SetLevel
    \/ SetTimestampFormat
    \/ SetColorOutput
    \/ SetCallerFrameEnable
    \/ SetCallerFrameDepth
    \/ SetWriterLock
    \/ SetWriterAssign
    \/ SetWriterUnlock

HandleLogStep(t) ==
    \/ Filter(t)
    \/ Get(t)
    \/ ReadTsFormat(t)
    \/ WriteTime(t)
    \/ WriteLevel(t)
    \/ WriteMessage(t)
    \/ CheckCaller(t)
    \/ ReadCallerSkip(t)
    \/ WriteCaller(t)
    \/ WriteField(t)
    \/ WriteNewline(t)
    \/ Lock(t)
    \/ Write(t)
    \/ Unlock(t)
    \/ Reset(t)
    \/ Put(t)
    \/ Exit(t)

Next ==
    \/ \E t \in Threads : WithFields(t, FieldsOf(t))
    \/ \E t \in Threads, e \in {"nil", ErrText} : WithError(t, e)
    \/ \E t \in Threads, m \in Methods : LoggerCall(t, m)
    \/ \E t \in Threads, m \in Methods : FieldLoggerCall(t, m)
    \/ \E t \in Threads : HandleLogStep(t)
    \/ SetterStep

Spec == Init /\ [][Next]_vars

(***************************************************************************)
(* Level.String and LevelFromString as pure functions: the arguments are   *)
(* drawn in the initial state and the actions apply the functions.         *)
(***************************************************************************)
LevelArgs  == (0 - MaxLvlArg) .. (FatalLevel + MaxLvlArg)
LevelNames == {"debug", "info", "warn", "error", "fatal"}
OtherNames == {"", "DEBUG", "warning", "trace", "invalid lvl"}

InitLevel ==
    /\ InitCommon
    /\ lin \in LevelArgs /\ lout = ""
    /\ pin \in LevelNames \cup OtherNames /\ pout = NoParse
    /\ rt = ""
    /\ InitFmtIdle

\* lout := lin.String()
ApplyString ==
    /\ lout = ""
    /\ lout' = LevelString(lin)
    /\ UNCHANGED <<lin, pin, pout, rt, fmtvars, cfgvars, logvars, govars, setvars>>

\* pout := LevelFromString(pin)
ApplyParse ==
    /\ pout = NoParse
    /\ pout' = LevelFromString(pin)
    /\ UNCHANGED <<lin, lout, pin, rt, fmtvars, cfgvars, logvars, govars, setvars>>

\* rt := lvl.String() for the lvl LevelFromString returned without error
ApplyRoundTrip ==
    /\ pout # NoParse /\ pout.err = "" /\ rt = ""
    /\ rt' = LevelString(pout.lvl)
    /\ UNCHANGED <<lin, lout, pin, pout, fmtvars, cfgvars, logvars, govars, setvars>>

NextLevel == ApplyString \/ ApplyParse \/ ApplyRoundTrip

SpecLevel == InitLevel /\ [][NextLevel]_vars

(***************************************************************************)
(* Reading the sink and the history.                                       *)
(***************************************************************************)
\* The pairs of the sink that call o wrote, in order.
LineOf(o) == SelectSeq(sink, LAMBDA p : p.o = o)

InSink(o) == \E i \in 1..Len(sink) : sink[i].o = o

\* The method through which call o was made.
MethOf(o) ==
    IF call[o[1]].n = o[2] THEN call[o[1]].meth
    ELSE (CHOOSE d \in done : d.t = o[1] /\ d.n = o[2]).meth

Quiescent == \A t \in Threads : pc[t] \in {"idle", "derived"}

\* The finished calls whose line the writer accepted.
Written == {d \in done : d.passed /\ d.err = ""}

FixedKeys == {tsKey, "timestamp", "level", "message", "caller", "\n"}
UserFields(L) == {<<L[i].k, L[i].v>> : i \in {j \in 1..Len(L) : L[j].k \notin FixedKeys}}

\* L is one whole line of a call made with the fields F: the timestamp pair
\* first, the newline last and nowhere else, level and message once each,
\* and F as its user fields.
CompleteLine(L, F) ==
    /\ Len(L) \in {4 + Cardinality(F), 5 + Cardinality(F)}
    /\ L[1].k = tsKey
    /\ L[2].k = "level"
    /\ L[3].k = "message"
    /\ L[Len(L)].k = "\n"
    /\ \A i \in 1..(Len(L) - 1) : L[i].k # "\n"
    /\ Len(L) = 5 + Cardinality(F) => L[4].k = "caller"
    /\ UserFields(L) = F

(***************************************************************************)
(* C1: a log call at level R on a logger whose minimum level is C writes   *)
(* a line to the sink if and only if R >= C; when R < C the sink receives  *)
(* nothing from the call.  (C is the level the call read at its filter; a  *)
(* line handed to a writer that rejects it counts as written.)             *)
(***************************************************************************)
C1_LevelFilter ==
    /\ \A d \in done :
         /\ d.passed <=> d.lvl >= d.seen
         /\ (d.passed /\ d.err = "") => InSink(<<d.t, d.n>>)
         /\ ~d.passed => ~InSink(<<d.t, d.n>>)
    /\ \A t \in Threads :
         pc[t] \notin {"idle", "derived", "filter", "exit", "exited"}
            => call[t].lvl >= loc[t].seen

C1_Witness ==
    \E d1, d2 \in done :
       /\ d1.passed /\ InSink(<<d1.t, d1.n>>)
       /\ ~d2.passed /\ d2.seen # InfoLevel

(***************************************************************************)
(* C2: writes to the sink are mutually exclusive: at most one call is      *)
(* inside the sink's Write at any time, and the pairs of each line are     *)
(* contiguous in the sink.                                                 *)
(***************************************************************************)
InWrite(t) == pc[t] = "writing"

C2_MutualExclusion ==
    /\ \A t1, t2 \in Threads : (InWrite(t1) /\ InWrite(t2)) => t1 = t2
    /\ \A i, j, k \in 1..Len(sink) :
         (i < j /\ j < k /\ sink[i].o = sink[k].o) => sink[j].o = sink[i].o

C2_Witness ==
    \E t1, t2 \in Threads :
       /\ InWrite(t1) /\ pc[t2] = "lock"
       /\ \E i \in 1..Len(sink) : sink[i].o = Owner(t1)

(***************************************************************************)
(* C3: when the goroutines' calls have all returned, the sink holds        *)
(* exactly one line per call that passed the filter (and whose write the   *)
(* writer accepted), each the complete line of exactly one call.           *)
(***************************************************************************)
Newlines == Cardinality({i \in 1..Len(sink) : sink[i].k = "\n"})

C3_AllLinesWhole ==
    /\ \A d \in Written : CompleteLine(LineOf(<<d.t, d.n>>), d.fields)
    /\ Quiescent =>
         /\ Newlines = Cardinality(Written)
         /\ \A i \in 1..Len(sink) :
              \E d \in Written : sink[i].o = <<d.t, d.n>>

C3_Witness ==
    /\ Quiescent
    /\ \E d1, d2 \in Written : d1.t # d2.t
    /\ Newlines = 2

(***************************************************************************)
(* C4: no state is reachable in which a setter writes a configuration      *)
(* field while a concurrent log call reads that field without holding the  *)
(* logger's mutex.                                                         *)
(***************************************************************************)
\* The field the setter goroutine's next step assigns.
SetterWrites ==
    CASE spc = "write" /\ sreq.op = "SetLevel"           -> "level"
      [] spc = "write" /\ sreq.op = "SetTimestampFormat" -> "tsFormat"
      [] spc = "write" /\ sreq.op = "SetColorOutput"     -> "enableColor"
      [] spc = "write" /\ sreq.op = "SetCallerFrame"     -> "enableCaller"
      [] spc = "write2"                                  -> "callerSkipFrameCount"
      [] spc = "lockedwrite"                             -> "out"
      [] OTHER                                           -> "nothing"

\* The field goroutine t's next step reads.
Reads(t) ==
    CASE pc[t] = "filter"     -> "level"
      [] pc[t] = "tsfmt"      -> "tsFormat"
      [] pc[t] \in {"ts", "level", "message", "caller"} -> "enableColor"
      [] pc[t] = "fields" /\ loc[t].todo # {} -> "enableColor"
      [] pc[t] = "callerchk"  -> "enableCaller"
      [] pc[t] = "callerskip" -> "callerSkipFrameCount"
      [] pc[t] = "write"      -> "out"
      [] OTHER                -> "none"

C4_ConfigAccessUnderMutex ==
    \A t \in Threads :
       (SetterWrites = Reads(t)) => (mu = Setter \/ mu = t)

(***************************************************************************)
(* C6: a Fatal call, on the Logger or on a derived handle, whatever the    *)
(* minimum level among the five levels, writes its record to the sink      *)
(* before it signals termination: os.Exit is never reached before the      *)
(* write of the record has completed.                                      *)
(***************************************************************************)
C6_FatalWritesThenExits ==
    \A t \in Threads :
       (pc[t] \in {"exit", "exited"} /\ level \in Levels)
          => \E d \in done : d.t = t /\ d.n = call[t].n /\ d.passed

(***************************************************************************)
(* C7: the level pair of every record names the method that emitted it:    *)
(* Debug level=debug, Info level=info, Warn level=warn, Error level=error, *)
(* Fatal level=fatal, on the Logger and on a derived field logger.         *)
(***************************************************************************)
MethodName(m) ==
    CASE m = "Debug" -> "debug"
      [] m = "Info"  -> "info"
      [] m = "Warn"  -> "warn"
      [] m = "Error" -> "error"
      [] m = "Fatal" -> "fatal"

C7_LevelNamesMethod ==
    \A i \in 1..Len(sink) :
       sink[i].k = "level" => sink[i].v = MethodName(MethOf(sink[i].o))

(***************************************************************************)
(* C8: when the writer rejects a write, the log call returns normally and  *)
(* the failure is printed through the standard logger as                   *)
(* "error logging: <the writer's error>", once.                            *)
(***************************************************************************)
Reports(o) == {i \in 1..Len(stdlog) : stdlog[i].o = o}

C8_WriteFailureReported ==
    /\ \A d \in done :
         /\ d.err # "" =>
              /\ Cardinality(Reports(<<d.t, d.n>>)) = 1
              /\ \A i \in Reports(<<d.t, d.n>>) :
                   stdlog[i].text = "error logging: " /\ stdlog[i].err = "dummy error"
         /\ d.err = "" => Reports(<<d.t, d.n>>) = {}
    /\ \A t \in Threads :
         (pc[t] \in {"unlock", "reset", "put"} /\ loc[t].err # "")
            => Cardinality(Reports(Owner(t))) = 1
    /\ \A t \in Threads : pc[t] \in {"idle", "derived", "exit"} => mu # t

C8_Witness ==
    \E d \in done : d.passed /\ d.err = "dummy error" /\ ~InSink(<<d.t, d.n>>)

(***************************************************************************)
(* C9: Level.String maps 0..4 to debug, info, warn, error, fatal and every *)
(* other integer to "invalid lvl".                                         *)
(***************************************************************************)
C9_LevelString ==
    lout # "" =>
       /\ lin = 0 => lout = "debug"
       /\ lin = 1 => lout = "info"
       /\ lin = 2 => lout = "warn"
       /\ lin = 3 => lout = "error"
       /\ lin = 4 => lout = "fatal"
       /\ (lin < 0 \/ lin > 4) => lout = "invalid lvl"

C9_Witness == lout = "invalid lvl" /\ lin = 10

(***************************************************************************)
(* C10: for each name in {debug, info, warn, error, fatal}, parsing the    *)
(* name succeeds, returns the level of that name, and String() of that     *)
(* level is the name again.                                                *)
(***************************************************************************)
LevelNamed(s) ==
    CASE s = "debug" -> 0
      [] s = "info"  -> 1
      [] s = "warn"  -> 2
      [] s = "error" -> 3
      [] s = "fatal" -> 4

C10_ParseStringRoundTrip ==
    pin \in LevelNames =>
       /\ pout # NoParse => (pout.err = "" /\ pout.lvl = LevelNamed(pin))
       /\ rt # "" => rt = pin

C10_Witness == pin = "warn" /\ rt = "warn"

(***************************************************************************)
(* C11: parsing a name that is none of the five level names fails: the     *)
(* parse returns the invalid-level error to its caller, and no String() of *)
(* a parsed level is ever taken from it.                                   *)
(***************************************************************************)
C11_InvalidLevel ==
    (pin \notin LevelNames /\ pout # NoParse) =>
       /\ pout.err = "invalid level"
       /\ rt = ""

C11_Witness == pin = "warning" /\ pout # NoParse /\ pout.err # ""

(***************************************************************************)
(* The Logger of src/log.go, lines 1-292: the fields live in the Logger,   *)
(* every setter takes the mutex, and handleLog holds the mutex except      *)
(* while it resolves the caller and while it colours a key.                *)
(***************************************************************************)
RFC3339 == "2006-01-02T15:04:05Z07:00"

\* logf.New() of src/log.go:66
InitV1 ==
    /\ InitLevelIdle
    /\ level = InfoLevel
    /\ tsFormat = RFC3339
    /\ enableColor = TRUE
    /\ enableCaller = FALSE
    /\ callerSkipFrameCount = 0
    /\ out = "buf"
    /\ mu = "free"
    /\ v1 = [fields |-> NoFields, buf |-> <<>>]
    /\ pool = {}
    /\ bufs = [b \in BufIds |-> <<>>]
    /\ sink = <<>>
    /\ stdlog = <<>>
    /\ exitStatus = 0
    /\ pc = [t \in Threads |-> "idle"]
    /\ call = [t \in Threads |-> NoCall]
    /\ handle = [t \in Threads |-> NoHandle]
    /\ loc = [t \in Threads |-> NoLoc]
    /\ done = {}
    /\ spc = "idle"
    /\ sreq = NoReq
    /\ nsets = 0

\* sort.Strings(keys): the order of the keys the model uses.
KeyRank(k) ==
    CASE k = "caller"     -> 1
      [] k = "component"  -> 2
      [] k = "error"      -> 3
      [] k = "ip"         -> 4
      [] k = "level"      -> 5
      [] k = "message"    -> 6
      [] k = "request_id" -> 7
      [] k = "timestamp"  -> 8
      [] OTHER            -> 9

RECURSIVE SortedKeys(_)
SortedKeys(K) ==
    IF K = {} THEN <<>>
    ELSE LET k == CHOOSE x \in K : \A y \in K : KeyRank(x) <= KeyRank(y)
         IN  <<k>> \o SortedKeys(K \ {k})

\* outMap[k] = v
MapSet(M, k, v) == {p \in M : p[1] # k} \cup {<<k, v>>}
MapGet(M, k) == (CHOOSE p \in M : p[1] = k)[2]

\* func getColoredKey(k string, lvl string) string of src/log.go:262
getColoredKeyV1(lvlName) ==
    CASE lvlName = "debug" -> "white"
      [] lvlName = "info"  -> "cyan"
      [] lvlName = "warn"  -> "yellow"
      [] lvlName \in {"fatal", "error"} -> "red"
      [] OTHER -> ""

\* strings.TrimRight(line, " "): the space after the last pair goes.
TrimRight(L) ==
    IF L = <<>> THEN L ELSE [L EXCEPT ![Len(L)].sp = FALSE]

\* func (l *Logger) WithFields(fields Fields) *Logger: the call begins
V1WithFields(t, F) ==
    /\ Running /\ pc[t] = "idle" /\ Started < MaxCalls
    /\ handle' = [handle EXCEPT ![t] = [has |-> TRUE, fields |-> F]]
    /\ pc' = [pc EXCEPT ![t] = "v1wflock"]
    /\ UNCHANGED <<cfgvars, logvars, call, loc, done, setvars, lvlvars>>

\* func (l *Logger) WithError(err error) *Logger: nil returns l as it is,
\* otherwise l.WithFields(Fields{"error": err.Error()})
V1WithError(t, e) ==
    /\ Running /\ pc[t] = "idle" /\ Started < MaxCalls
    /\ t \in ErrorCallers
    /\ IF e = "nil"
          THEN /\ handle' = [handle EXCEPT ![t] = [has |-> TRUE, fields |-> NoFields]]
               /\ pc' = [pc EXCEPT ![t] = "derived"]
          ELSE /\ handle' = [handle EXCEPT ![t] = [has |-> TRUE, fields |-> {<<"error", e>>}]]
               /\ pc' = [pc EXCEPT ![t] = "v1wflock"]
    /\ UNCHANGED <<cfgvars, logvars, call, loc, done, setvars, lvlvars>>

\* WithFields: l.mu.Lock()
V1WithFieldsLock(t) ==
    /\ Running /\ pc[t] = "v1wflock"
    /\ CanLock(t)
    /\ mu' = t
    /\ pc' = [pc EXCEPT ![t] = "v1wfset"]
    /\ UNCHANGED <<cfgvars, v1, pool, bufs, sink, stdlog, exitStatus, call, handle,
                   loc, done, setvars, lvlvars>>


\* WithFields: l.fields = fields
V1StoreFields(L, F) == [L EXCEPT !.fields = F]

\* WithFields: l.fields = fields; return l (the deferred Unlock runs)
V1WithFieldsSet(t) ==
    /\ Running /\ pc[t] = "v1wfset"
    /\ v1' = V1StoreFields(v1, handle[t].fields)
    /\ mu' = "free"
    /\ pc' = [pc EXCEPT ![t] = "derived"]
    /\ UNCHANGED <<cfgvars, pool, bufs, sink, stdlog, exitStatus, call, handle,
                   loc, done, setvars, lvlvars>>

\* Logger.Debug/Info/Warn/Error/Fatal: l.handleLog(msg, <level>), on l
\* itself ("base") or on what WithFields/WithError returned ("field").
V1Call(t, m) ==
    /\ Running /\ pc[t] \in {"idle", "derived"} /\ Started < MaxCalls
    /\ m \in MethodsOf(t)
    /\ pc[t] = "idle" => t \in LoggerCallers
    /\ call' = [call EXCEPT ![t] =
                  [recv |-> IF pc[t] = "derived" THEN "field" ELSE "base",
                   meth |-> m, n |-> Calls(t) + 1, lvl |-> LoggerMethodLevel(m),
                   fields |-> IF pc[t] = "derived" THEN handle[t].fields ELSE NoFields]]
    /\ pc' = [pc EXCEPT ![t] = "v1lock"]
    /\ loc' = [loc EXCEPT ![t] = NoLoc]
    /\ handle' = [handle EXCEPT ![t] = NoHandle]
    /\ UNCHANGED <<cfgvars, logvars, done, setvars, lvlvars>>

\* handleLog: l.mu.Lock() (on entry, after caller(), after colouring a key)
V1Lock(t) ==
    /\ Running /\ pc[t] \in {"v1lock", "v1relock", "v1relockc"}
    /\ CanLock(t)
    /\ mu' = t
    /\ pc' = [pc EXCEPT ![t] = CASE pc[t] = "v1lock"    -> "v1head"
                                 [] pc[t] = "v1relock"  -> "v1loop"
                                 [] pc[t] = "v1relockc" -> "v1loop"]
    /\ UNCHANGED <<cfgvars, v1, pool, bufs, sink, stdlog, exitStatus, call, handle,
                   loc, done, setvars, lvlvars>>

\* handleLog with the mutex held: the level filter, the copy of l.fields,
\* the sorted keys after the fixed keys, "caller" last when enabled, the
\* fixed values; then the mutex is released if the caller is to be resolved.
V1Head(t) ==
    /\ Running /\ pc[t] = "v1head"
    /\ IF Discarded(call[t].lvl, level)
          THEN /\ mu' = "free"
               /\ pc' = [pc EXCEPT ![t] = AfterReturn(t)]
               /\ done' = done \cup {Outcome(t, FALSE)}
               /\ loc' = loc
          ELSE LET keys  == SortedKeys({f[1] : f \in v1.fields})
                   fixed == <<"timestamp", "level", "message">> \o keys
                              \o (IF enableCaller THEN <<"caller">> ELSE <<>>)
                   om    == MapSet(MapSet(MapSet(v1.fields, "message", "msg"),
                                          "level", LevelString(call[t].lvl)),
                                   "timestamp", tsFormat)
               IN  /\ loc' = [loc EXCEPT ![t].seen = level, ![t].keys = fixed,
                                         ![t].om = om]
                   /\ mu' = IF enableCaller THEN "free" ELSE mu
                   /\ pc' = [pc EXCEPT ![t] = IF enableCaller THEN "v1caller"
                                              ELSE "v1loop"]
                   /\ done' = done
    /\ UNCHANGED <<cfgvars, v1, pool, bufs, sink, stdlog, exitStatus, call, handle,
                   setvars, lvlvars>>

\* outMap["caller"] = caller(l.callerSkipFrameCount), without the mutex
V1Caller(t) ==
    /\ Running /\ pc[t] = "v1caller"
    /\ loc' = [loc EXCEPT ![t].om = MapSet(@, "caller", caller(callerSkipFrameCount))]
    /\ pc' = [pc EXCEPT ![t] = "v1relock"]
    /\ UNCHANGED <<cfgvars, logvars, call, handle, done, setvars, lvlvars>>

\* for _, k := range fixedKeys { if l.enableColor { l.mu.Unlock() ... }
\*   else { line += fmt.Sprintf("%s=%v ", k, outMap[k]) } }
V1Loop(t) ==
    /\ Running /\ pc[t] = "v1loop" /\ loc[t].keys # <<>>
    /\ IF enableColor
          THEN /\ mu' = "free"
               /\ pc' = [pc EXCEPT ![t] = "v1color"]
               /\ loc' = loc
          ELSE /\ loc' = [loc EXCEPT
                            ![t].line = Append(@, Pair(Head(loc[t].keys), "", TRUE,
                                                       MapGet(loc[t].om, Head(loc[t].keys)),
                                                       TRUE, Owner(t))),
                            ![t].keys = Tail(@)]
               /\ UNCHANGED <<mu, pc>>
    /\ UNCHANGED <<cfgvars, v1, pool, bufs, sink, stdlog, exitStatus, call, handle,
                   done, setvars, lvlvars>>

\* line += fmt.Sprintf("%s=%v ", getColoredKey(k, lvl.String()), outMap[k]),
\* without the mutex
V1Color(t) ==
    /\ Running /\ pc[t] = "v1color"
    /\ loc' = [loc EXCEPT
                 ![t].line = Append(@, Pair(Head(loc[t].keys),
                                            getColoredKeyV1(LevelString(call[t].lvl)),
                                            TRUE, MapGet(loc[t].om, Head(loc[t].keys)),
                                            TRUE, Owner(t))),
                 ![t].keys = Tail(@)]
    /\ pc' = [pc EXCEPT ![t] = "v1relockc"]
    /\ UNCHANGED <<cfgvars, logvars, call, handle, done, setvars, lvlvars>>

\* dest := strings.TrimRight(line, " "); l.buf = l.buf[:0];
\* l.buf = append(l.buf, dest...); l.buf = append(l.buf, '\n')
V1FillBuf(t) ==
    /\ Running /\ pc[t] = "v1loop" /\ loc[t].keys = <<>>
    /\ v1' = [v1 EXCEPT !.buf = AppendNewline(TrimRight(loc[t].line), Owner(t))]
    /\ pc' = [pc EXCEPT ![t] = "v1write"]
    /\ UNCHANGED <<cfgvars, mu, pool, bufs, sink, stdlog, exitStatus, call, handle,
                   loc, done, setvars, lvlvars>>

\* _, err := l.out.Write(l.buf); if err != nil { stdlog.Printf(...) };
\* handleLog returns and the deferred Unlock runs.
V1Write(t) ==
    /\ Running /\ pc[t] \in {"v1write", "v1writing"}
    /\ LET B   == v1.buf
           err == WriterErr(out)
           to  == Min(loc[t].wi + ChunkLen, Len(B))
           fin == err # "" \/ to = Len(B)
           l2  == [loc EXCEPT ![t].wi = IF err # "" THEN @ ELSE to, ![t].err = err,
                              ![t].nw = WriteCalls(@, pc[t] = "v1write")]
       IN  /\ sink' = IF err # "" THEN sink
                      ELSE SinkWrite(sink, SubSeq(B, loc[t].wi + 1, to))
           /\ loc' = l2
           /\ stdlog' = IF fin THEN LogWriteErr(stdlog, err, Owner(t)) ELSE stdlog
           /\ mu' = IF fin THEN "free" ELSE mu
           /\ done' = IF fin
                         THEN done \cup {[Outcome(t, TRUE) EXCEPT !.err = err,
                                                                 !.writes = l2[t].nw]}
                         ELSE done
           /\ pc' = [pc EXCEPT ![t] = IF fin THEN AfterReturn(t) ELSE "v1writing"]
    /\ UNCHANGED <<cfgvars, v1, pool, bufs, exitStatus, call, handle, setvars, lvlvars>>

\* The setters of src/log.go:97-132: l.mu.Lock(); defer l.mu.Unlock(); assign.
V1SetBegin(r) ==
    /\ Running /\ spc = "idle" /\ nsets < MaxSets
    /\ sreq' = r
    /\ spc' = "lock"
    /\ nsets' = nsets + 1
    /\ UNCHANGED <<cfgvars, logvars, govars, lvlvars>>

V1SetLock ==
    /\ Running /\ spc = "lock"
    /\ CanLock(Setter)
    /\ mu' = Setter
    /\ spc' = "lockedwrite"
    /\ UNCHANGED <<cfgvars, v1, pool, bufs, sink, stdlog, exitStatus, govars,
                   sreq, nsets, lvlvars>>

V1SetAssign ==
    /\ Running /\ spc = "lockedwrite"
    /\ level' = IF sreq.op = "SetLevel" THEN sreq.lv ELSE level
    /\ tsFormat' = IF sreq.op = "SetTimestampFormat" THEN sreq.s ELSE tsFormat
    /\ enableColor' = IF sreq.op = "SetColorOutput" THEN sreq.b ELSE enableColor
    /\ enableCaller' = IF sreq.op = "SetCallerFrame" THEN sreq.b ELSE enableCaller
    /\ callerSkipFrameCount' = IF sreq.op = "SetCallerFrame" THEN sreq.n
                               ELSE callerSkipFrameCount
    /\ out' = IF sreq.op = "SetWriter" THEN sreq.s ELSE out
    /\ mu' = "free"
    /\ spc' = "idle"
    /\ UNCHANGED <<v1, pool, bufs, sink, stdlog, exitStatus, govars, sreq, nsets,
                   lvlvars>>

V1Requests ==
    {r \in Requests : r.op # "SetColorOutput"}
    \cup {[op |-> "SetColorOutput", lv |-> 0, s |-> "", b |-> FALSE, n |-> 0]}

NextV1 ==
    \/ \E t \in Threads : V1WithFields(t, FieldsOf(t))
    \/ \E t \in Threads, e \in {"nil", ErrText} : V1WithError(t, e)
    \/ \E t \in Threads : V1WithFieldsLock(t)
    \/ \E t \in Threads : V1WithFieldsSet(t)
    \/ \E t \in Threads, m \in Methods : V1Call(t, m)
    \/ \E t \in Threads : V1Lock(t)
    \/ \E t \in Threads : V1Head(t)
    \/ \E t \in Threads : V1Caller(t)
    \/ \E t \in Threads : V1Loop(t)
    \/ \E t \in Threads : V1Color(t)
    \/ \E t \in Threads : V1FillBuf(t)
    \/ \E t \in Threads : V1Write(t)
    \/ \E t \in Threads : Exit(t)
    \/ \E r \in V1Requests : V1SetBegin(r)
    \/ V1SetLock
    \/ V1SetAssign

SpecV1 == InitV1 /\ [][NextV1]_vars

(***************************************************************************)
(* C5: WithFields and WithError return a derived handle and leave the      *)
(* Logger's own fields unchanged: a line logged directly on the Logger     *)
(* carries no user field, and a line logged through a derived handle       *)
(* carries exactly the fields that handle was derived with.                *)
(***************************************************************************)
C5_DerivedHandleFields ==
    \A d \in Written : UserFields(LineOf(<<d.t, d.n>>)) = d.fields

(***************************************************************************)
(* The escaper of src/unnamed/part_001, on bytes.  A Go string is a        *)
(* sequence of bytes (0..255); positions i and start count from 0 as in    *)
(* the code, Sequences count from 1.                                       *)
(***************************************************************************)
MaxStrLen == 3     \* the escaper is applied to every string of up to MaxStrLen bytes

RuneSelf  == 128       \* utf8.RuneSelf
RuneError == 65533     \* utf8.RuneError, U+FFFD

\* var hex = "0123456789abcdef"
hex == <<48, 49, 50, 51, 52, 53, 54, 55, 56, 57, 97, 98, 99, 100, 101, 102>>

\* The bytes of the string literals the code and its tests use.
Bytes(str) ==
    CASE str = ""           -> <<>>
      [] str = "k"          -> <<107>>
      [] str = "v"          -> <<118>>
      [] str = "null"       -> <<110, 117, 108, 108>>
      [] str = "<nil>"      -> <<60, 110, 105, 108, 62>>
      [] str = "timestamp=" -> <<116, 105, 109, 101, 115, 116, 97, 109, 112, 61>>
      [] str = "level"      -> <<108, 101, 118, 101, 108>>
      [] str = "message"    -> <<109, 101, 115, 115, 97, 103, 101>>
      [] str = "caller"     -> <<99, 97, 108, 108, 101, 114>>
      [] str = "debug"      -> <<100, 101, 98, 117, 103>>
      [] str = "info"       -> <<105, 110, 102, 111>>
      [] str = "warn"       -> <<119, 97, 114, 110>>
      [] str = "error"      -> <<101, 114, 114, 111, 114>>
      [] str = "fatal"      -> <<102, 97, 116, 97, 108>>
      [] str = "invalid lvl" -> <<105, 110, 118, 97, 108, 105, 100, 32, 108, 118, 108>>
      [] str = "\\u00"      -> <<92, 117, 48, 48>>
      [] str = "\\ufffd"    -> <<92, 117, 102, 102, 102, 100>>
      [] str = "true"       -> <<116, 114, 117, 101>>
      [] str = "false"      -> <<102, 97, 108, 115, 101>>
      [] str = "main.go:14" -> <<109, 97, 105, 110, 46, 103, 111, 58, 49, 52>>

\* A continuation byte of UTF-8.
Cont(b) == 128 <= b /\ b <= 191

\* utf8.DecodeRuneInString(s[i:]): the rune that starts at position i and
\* its width; a byte that starts no valid encoding is (RuneError, 1).
DecodeRune(s, i) ==
    LET n   == Len(s) - i
        s0  == s[i + 1]
        sz  == CASE s0 < 128                 -> 1
                 [] 194 <= s0 /\ s0 <= 223   -> 2
                 [] 224 <= s0 /\ s0 <= 239   -> 3
                 [] 240 <= s0 /\ s0 <= 244   -> 4
                 [] OTHER                    -> 0
        lo  == CASE s0 = 224 -> 160 [] s0 = 240 -> 144 [] OTHER -> 128
        hi  == CASE s0 = 237 -> 159 [] s0 = 244 -> 143 [] OTHER -> 191
        bad == [c |-> RuneError, size |-> 1]
    IN  IF s0 < 128 THEN [c |-> s0, size |-> 1]
        ELSE IF sz = 0 \/ n < sz THEN bad
        ELSE IF s[i + 2] < lo \/ hi < s[i + 2] THEN bad
        ELSE IF sz = 2 THEN [c |-> (s0 % 32) * 64 + (s[i + 2] % 64), size |-> 2]
        ELSE IF ~Cont(s[i + 3]) THEN bad
        ELSE IF sz = 3
                THEN [c |-> (s0 % 16) * 4096 + (s[i + 2] % 64) * 64 + (s[i + 3] % 64),
                      size |-> 3]
        ELSE IF ~Cont(s[i + 4]) THEN bad
        ELSE [c |-> (s0 % 8) * 262144 + (s[i + 2] % 64) * 4096
                      + (s[i + 3] % 64) * 64 + (s[i + 4] % 64),
              size |-> 4]

\* func checkEscapingRune(r rune) bool
checkEscapingRune(r) == r = 61 \/ r = 32 \/ r = 34 \/ r = RuneError

\* bytes.IndexFunc([]byte(s), checkEscapingRune), searching from position i:
\* the position of the first rune that satisfies it, or -1.
RECURSIVE IndexFunc(_, _)
IndexFunc(s, i) ==
    IF i >= Len(s) THEN -1
    ELSE LET d == DecodeRune(s, i)
         IN  IF checkEscapingRune(d.c) THEN i ELSE IndexFunc(s, i + d.size)

\* s[start:i]
Slice(s, start, i) == SubSeq(s, start + 1, i)

\* The escape of one byte below utf8.RuneSelf that is not copied.
EscapeByte(b) ==
    CASE b = 92 \/ b = 34 -> <<92, b>>
      [] b = 10           -> <<92, 110>>
      [] b = 13           -> <<92, 114>>
      [] b = 9            -> <<92, 116>>
      [] OTHER            -> Bytes("\\u00") \o <<hex[(b \div 16) + 1], hex[(b % 16) + 1]>>

\* The loop of writeQuotedString: for i := 0; i < len(s); { ... }.  The
\* result is the buffer and the value of start when the loop ends.
RECURSIVE QuoteLoop(_, _, _, _)
QuoteLoop(s, i, start, B) ==
    IF i >= Len(s) THEN [B |-> B, start |-> start]
    ELSE LET b == s[i + 1]
         IN  IF b < RuneSelf
                THEN IF 32 <= b /\ b # 92 /\ b # 34
                        THEN QuoteLoop(s, i + 1, start, B)
                        ELSE QuoteLoop(s, i + 1, i + 1,
                                       B \o Slice(s, start, i) \o EscapeByte(b))
                ELSE LET d == DecodeRune(s, i)
                     IN  IF d.c = RuneError
                            THEN QuoteLoop(s, i + d.size, i + d.size,
                                           B \o Slice(s, start, i) \o Bytes("\\ufffd"))
                            ELSE QuoteLoop(s, i + d.size, start, B)

writeQuotedStringNoTail(B, s) ==
    Append(QuoteLoop(s, 0, 0, Append(B, 34)).B, 34)

\* func writeQuotedString(buf *byteBuffer, s string)
writeQuotedString(B, s) ==
    LET r == QuoteLoop(s, 0, 0, Append(B, 34))
    IN  Append(r.B \o Slice(s, r.start, Len(s)), 34)

\* func escapeAndWriteString(buf *byteBuffer, s string)
escapeAndWriteString(B, s) ==
    IF IndexFunc(s, 0) # -1 THEN writeQuotedString(B, s) ELSE B \o s

\* The ANSI escape codes of src/unnamed/part_001:66-72.
Ansi(name) ==
    CASE name = "reset"  -> <<27, 91, 48, 109>>
      [] name = "purple" -> <<27, 91, 51, 53, 109>>
      [] name = "red"    -> <<27, 91, 51, 49, 109>>
      [] name = "yellow" -> <<27, 91, 51, 51, 109>>
      [] name = "cyan"   -> <<27, 91, 51, 54, 109>>

\* func getColoredKey(k string, lvl Level) string
getColoredKey(k, lvl) == Ansi(colorLvlMap(lvl)) \o k \o Ansi("reset")

\* strconv.AppendInt(b, n, 10)
RECURSIVE Digits(_)
Digits(n) == IF n < 10 THEN <<48 + n>> ELSE Append(Digits(n \div 10), 48 + (n % 10))
AppendInt(B, n) == IF n < 0 THEN B \o <<45>> \o Digits(0 - n) ELSE B \o Digits(n)

\* A field value is a Go value with its dynamic type: a string, an int, a
\* fmt.Stringer (with what its String() returns), a bool or nil.
Value(type, str, n) == [type |-> type, s |-> str, n |-> n]
NilValue == Value("nil", <<>>, 0)

\* fmt.Sprintf("%v", val) for the values that reach the default case
Sprintf(val) ==
    CASE val.type = "nil"  -> Bytes("<nil>")
      [] val.type = "bool" -> IF val.n = 1 THEN Bytes("true") ELSE Bytes("false")

\* writeToBuf: switch v := val.(type) { ... }
writeValue(B, val) ==
    CASE val.type = "string"   -> escapeAndWriteString(B, val.s)
      [] val.type = "int"      -> AppendInt(B, val.n)
      [] val.type = "stringer" -> escapeAndWriteString(B, val.s)
      [] OTHER                 -> escapeAndWriteString(B, Sprintf(val))

\* The key, as writeToBuf and writeStringToBuf write it.
writeKey(B, key, lvl, color) ==
    IF color THEN escapeAndWriteString(B, getColoredKey(key, lvl))
    ELSE escapeAndWriteString(B, key)

\* func writeToBuf(buf, key, val, lvl, color, space), on bytes
writeToBufBytes(B, key, val, lvl, color, space) ==
    LET B1 == Append(writeKey(B, key, lvl, color), 61)
    IN  writeValue(B1, val) \o (IF space THEN <<32>> ELSE <<>>)

\* func writeStringToBuf(buf, key, val, lvl, color, space), on bytes
writeStringToBufBytes(B, key, val, lvl, color, space) ==
    LET B1 == Append(writeKey(B, key, lvl, color), 61)
    IN  escapeAndWriteString(B1, val) \o (IF space THEN <<32>> ELSE <<>>)

\* func writeTimeToBuf(buf, format, lvl, color), on bytes; now is what
\* buf.AppendTime(time.Now(), format) appends.
writeTimeToBufBytes(B, now, lvl, color) ==
    (IF color THEN B \o getColoredKey(Bytes(tsKey), lvl) ELSE B \o Bytes(tsKey))
       \o now \o <<32>>

\* handleLog: for k, v := range fields { ... count++ }, the fields taken in
\* the order fs of one iteration over the map.
RECURSIVE RangeFields(_, _, _, _, _, _)
RangeFields(B, fs, count, n, lvl, color) ==
    IF fs = <<>> THEN B
    ELSE RangeFields(writeToBufBytes(B, Head(fs)[1], Head(fs)[2], lvl, color,
                                     count # n - 1),
                     Tail(fs), count + 1, n, lvl, color)

\* The bytes handleLog puts in the buffer for one record that passed the
\* filter (src/unnamed/part_001:204-222).
handleLogBytes(now, msg, lvl, color, withCaller, fs) ==
    LET B1 == writeTimeToBufBytes(<<>>, now, lvl, color)
        B2 == writeToBufBytes(B1, Bytes("level"),
                              Value("stringer", Bytes(LevelString(lvl)), 0),
                              lvl, color, TRUE)
        B3 == writeStringToBufBytes(B2, Bytes("message"), msg, lvl, color, TRUE)
        B4 == IF withCaller
                 THEN writeToBufBytes(B3, Bytes("caller"),
                                      Value("string", Bytes(caller(3)), 0),
                                      lvl, color, TRUE)
                 ELSE B3
    IN  Append(RangeFields(B4, fs, 0, Len(fs), lvl, color), 10)

(***************************************************************************)
(* SpecEsc: the escaper and the line encoder as pure functions.  The value *)
(* is drawn in the initial state; the actions apply, in turn,              *)
(* escapeAndWriteString, writeQuotedString, writeToBuf and the encoding of *)
(* a whole line whose message (for a string) and field value it is.        *)
(***************************************************************************)
\* NUL, tab, newline, carriage return, space, '"', '=', '\', 'v', and the
\* bytes 0xBD, 0xBF, 0xEF (U+FFFD is EF BF BD; each alone is invalid UTF-8).
Alphabet == {0, 9, 10, 13, 32, 34, 61, 92, 118, 189, 191, 239}

Strings ==
    UNION {[1..n -> Alphabet] : n \in 0..MaxStrLen}
       \cup {Bytes("null"), Bytes("<nil>")}

Values ==
    {Value("string", x, 0) : x \in Strings}
       \cup {NilValue, Value("bool", <<>>, 1)}
       \cup {Value("int", <<>>, n) : n \in {0, 1, 0 - 42}}

Now == <<50, 48, 50, 50>>

InitEsc ==
    /\ InitCommon
    /\ lin = 0 /\ lout = "" /\ pin = "" /\ pout = NoParse /\ rt = ""
    /\ kv = NoKv
    /\ \E v \in Values :
         esc = [pc |-> "escape", val |-> v, str |-> <<>>, quo |-> <<>>, kv |-> <<>>,
                line |-> <<>>, lvl |-> InfoLevel, color |-> FALSE, caller |-> FALSE,
                nf |-> 0]

\* escapeAndWriteString(buf, s) on an empty buffer
EscEscape ==
    /\ esc.pc = "escape"
    /\ esc' = [esc EXCEPT !.pc = "quote", !.str = escapeAndWriteString(<<>>, esc.val.s)]
    /\ UNCHANGED <<cfgvars, logvars, govars, setvars, lin, lout, pin, pout, rt, kv>>

\* writeQuotedString(buf, s) on an empty buffer
EscQuote ==
    /\ esc.pc = "quote"
    /\ esc' = [esc EXCEPT !.pc = "kv", !.quo = writeQuotedString(<<>>, esc.val.s)]
    /\ UNCHANGED <<cfgvars, logvars, govars, setvars, lin, lout, pin, pout, rt, kv>>

\* writeToBuf(buf, "k", val, InfoLevel, false, false) on an empty buffer
EscWriteToBuf ==
    /\ esc.pc = "kv"
    /\ esc' = [esc EXCEPT !.pc = "line",
                          !.kv = writeToBufBytes(<<>>, Bytes("k"), esc.val, InfoLevel,
                                                 FALSE, FALSE)]
    /\ UNCHANGED <<cfgvars, logvars, govars, setvars, lin, lout, pin, pout, rt, kv>>

\* The line of l.Info(s) or l.Error(s), with or without colour and caller,
\* with no field or with the field k=val.
EscHandleLog ==
    /\ esc.pc = "line"
    /\ \E lvl \in {InfoLevel, ErrorLevel}, color \in BOOLEAN, cl \in BOOLEAN,
          nf \in {0, 1} :
         esc' = [esc EXCEPT
                   !.pc = "done", !.lvl = lvl, !.color = color, !.caller = cl,
                   !.nf = nf,
                   !.line = handleLogBytes(Now, esc.val.s, lvl, color, cl,
                                           IF nf = 1 THEN <<<<Bytes("k"), esc.val>>>>
                                           ELSE <<>>)]
    /\ UNCHANGED <<cfgvars, logvars, govars, setvars, lin, lout, pin, pout, rt, kv>>

NextEsc == EscEscape \/ EscQuote \/ EscWriteToBuf \/ EscHandleLog

SpecEsc == InitEsc /\ [][NextEsc]_vars

(***************************************************************************)
(* Reading the results of the escaper.                                     *)
(***************************************************************************)
EscInput == esc.val.s

\* The positions (from 0) at which the runes of s start.
RECURSIVE RuneStarts(_, _)
RuneStarts(s, i) ==
    IF i >= Len(s) THEN {} ELSE {i} \cup RuneStarts(s, i + DecodeRune(s, i).size)

\* A byte at position i that starts no valid UTF-8 encoding.
InvalidAt(s, i) ==
    LET d == DecodeRune(s, i) IN s[i + 1] >= 128 /\ d.c = RuneError /\ d.size = 1

HasInvalidUTF8(s) == \E i \in RuneStarts(s, 0) : InvalidAt(s, i)

HasByte(s, b) == \E i \in 1..Len(s) : s[i] = b

\* s is wrapped in double quotes.
Quoted(q) == Len(q) >= 2 /\ q[1] = 34 /\ q[Len(q)] = 34

(***************************************************************************)
(* C12: a string is appended verbatim if and only if it contains no '=',   *)
(* no space, no double quote and no invalid UTF-8 sequence and is not the  *)
(* literal null; otherwise it is emitted wrapped in double quotes.         *)
(***************************************************************************)
C12_QuotingDecision ==
    (esc.pc \in {"quote", "kv", "line", "done"} /\ esc.val.type = "string") =>
       IF /\ ~HasByte(EscInput, 61) /\ ~HasByte(EscInput, 32) /\ ~HasByte(EscInput, 34)
          /\ ~HasInvalidUTF8(EscInput)
          /\ EscInput # Bytes("null")
          THEN esc.str = EscInput
          ELSE Quoted(esc.str)

(***************************************************************************)
(* C13: a nil field value is emitted as the unquoted literal null          *)
(* (k=null), and no string value is emitted as k=null.                     *)
(***************************************************************************)
C13_NilIsNull ==
    esc.pc \in {"line", "done"} =>
       /\ esc.val.type = "nil" => esc.kv = Bytes("k") \o <<61>> \o Bytes("null")
       /\ esc.val.type = "string" => esc.kv # Bytes("k") \o <<61>> \o Bytes("null")

(***************************************************************************)
(* The quoted form of a string as the specification describes it, rune by  *)
(* rune.  strict: only an invalid byte becomes the six bytes of the escape *)
(* of U+FFFD (backslash, u, f, f, f, d) and a well-formed                  *)
(* U+FFFD (EF BF BD) is copied; otherwise a well-formed U+FFFD becomes     *)
(* that escape as well.                                                    *)
(***************************************************************************)
HexDigit(n) == IF n < 10 THEN 48 + n ELSE 87 + n

QuotedPiece(s, i, strict) ==
    LET b == s[i + 1]
        d == DecodeRune(s, i)
    IN  CASE b = 92  -> <<92, 92>>
          [] b = 34  -> <<92, 34>>
          [] b = 10  -> <<92, 110>>
          [] b = 13  -> <<92, 114>>
          [] b = 9   -> <<92, 116>>
          [] b < 32 /\ b \notin {9, 10, 13}
                     -> <<92, 117, 48, 48, HexDigit(b \div 16), HexDigit(b % 16)>>
          [] b >= 128 /\ InvalidAt(s, i) -> <<92, 117, 102, 102, 102, 100>>
          [] b >= 128 /\ ~InvalidAt(s, i) /\ d.c = RuneError /\ ~strict
                     -> <<92, 117, 102, 102, 102, 100>>
          [] OTHER   -> SubSeq(s, i + 1, i + d.size)

RECURSIVE QuotedBody(_, _, _)
QuotedBody(s, i, strict) ==
    IF i >= Len(s) THEN <<>>
    ELSE QuotedPiece(s, i, strict) \o QuotedBody(s, i + DecodeRune(s, i).size, strict)

QuotedForm(s, strict) == <<34>> \o QuotedBody(s, 0, strict) \o <<34>>

(***************************************************************************)
(* C14: inside a quoted value, backslash and double quote are emitted as   *)
(* \\ and \", newline, carriage return and tab as \n, \r, \t, every other  *)
(* byte below 0x20 as \u00 and two lowercase hex digits, every byte that   *)
(* starts no valid UTF-8 encoding and every well-formed U+FFFD as the      *)
(* escape of U+FFFD (backslash, u, f, f, f, d),                            *)
(* and every other byte is copied in order, between one opening and one    *)
(* closing double quote.                                                   *)
(***************************************************************************)
C14_QuotedForm ==
    esc.pc \in {"kv", "line", "done"} => esc.quo = QuotedForm(EscInput, FALSE)

\* C14 as stated: only invalid UTF-8 becomes the escape of U+FFFD, every other byte
\* (a well-formed U+FFFD included) is copied unchanged.
C14_QuotedFormAsStated ==
    esc.pc \in {"kv", "line", "done"} => esc.quo = QuotedForm(EscInput, TRUE)

C14_Witness ==
    /\ esc.pc = "done"
    /\ EscInput = <<0, 189, 118>>
    /\ esc.quo = <<34, 92, 117, 48, 48, 48, 48, 92, 117, 102, 102, 102, 100, 118, 34>>

(***************************************************************************)
(* C19: with colour enabled every key is the colour code of the record's   *)
(* level, the key text, the reset code, and then '=': the reset code is    *)
(* always immediately followed by '=', every escape byte starts the        *)
(* level's colour code or the reset code, and there is one of each per     *)
(* key.  With colour disabled the line holds no escape byte.               *)
(***************************************************************************)
At(L, p, w) == p + Len(w) - 1 <= Len(L) /\ SubSeq(L, p, p + Len(w) - 1) = w

Occurrences(L, w) == {p \in 1..Len(L) : At(L, p, w)}

C19_ColorWrapsKeyOnly ==
    esc.pc = "done" =>
       LET L     == esc.line
           code  == Ansi(colorLvlMap(esc.lvl))
           nkeys == 3 + (IF esc.caller THEN 1 ELSE 0) + esc.nf
       IN  IF esc.color
              THEN /\ \A p \in Occurrences(L, Ansi("reset")) : At(L, p + 4, <<61>>)
                   /\ \A p \in Occurrences(L, <<27>>) :
                         At(L, p, code) \/ At(L, p, Ansi("reset"))
                   /\ Cardinality(Occurrences(L, code)) = nkeys
                   /\ Cardinality(Occurrences(L, Ansi("reset"))) = nkeys
              ELSE Occurrences(L, <<27>>) = {}

(***************************************************************************)
(* C20: the bytes of every record hold exactly one newline byte, and it is *)
(* the last byte, whatever bytes the message and the field value contain.  *)
(***************************************************************************)
C20_OneNewlineLast ==
    esc.pc = "done" =>
       /\ esc.line[Len(esc.line)] = 10
       /\ Cardinality(Occurrences(esc.line, <<10>>)) = 1

(***************************************************************************)
(* SpecArgs: a log call with positional key/value arguments,               *)
(* l.Info(msg, k1, v1, k2, ...), on a logger with default fields.  The     *)
(* pairing of the arguments is in no file of src/ (only its tests are), so *)
(* it follows the specification: the default fields come first, then the   *)
(* call's arguments, and a trailing key without a value is dropped.  The   *)
(* pairs are encoded by handleLog and writeToBuf of src/unnamed/part_001.  *)
(***************************************************************************)
MaxArgs == 3       \* positional field arguments of one call

\* "key1", "val1", "key2"
ArgItems == {<<107, 101, 121, 49>>, <<118, 97, 108, 49>>, <<107, 101, 121, 50>>}

\* DefaultFields: none, or "defaultkey", "defaultval" (shortened to dk, dv)
DefaultLists == {<<>>, <<<<100, 107>>, <<100, 118>>>>}

ArgLists == UNION {[1..n -> ArgItems] : n \in 0..MaxArgs}

RECURSIVE PairUpPadded(_)
PairUpPadded(list) ==
    IF list = <<>> THEN <<>>
    ELSE IF Len(list) = 1 THEN <<<<list[1], <<>>>>>>
    ELSE <<<<list[1], list[2]>>>> \o PairUpPadded(SubSeq(list, 3, Len(list)))

\* for i := 0; i < len(fields)-1; i += 2 { key, value := fields[i], fields[i+1] }
RECURSIVE PairUp(_)
PairUp(list) ==
    IF Len(list) < 2 THEN <<>>
    ELSE <<<<list[1], list[2]>>>> \o PairUp(SubSeq(list, 3, Len(list)))

\* The pairs as fields for the encoder: string values.
AsFields(pairs) == [j \in 1..Len(pairs) |-> <<pairs[j][1], Value("string", pairs[j][2], 0)>>]

InitArgs ==
    /\ InitCommon
    /\ lin = 0 /\ lout = "" /\ pin = "" /\ pout = NoParse /\ rt = ""
    /\ esc = NoEsc
    /\ \E d \in DefaultLists, a \in ArgLists :
         kv = [pc |-> "call", defaults |-> d, args |-> a, pairs |-> <<>>,
               err |-> "", line |-> <<>>]

\* The default fields and the arguments of the call are paired.
ArgsPair ==
    /\ kv.pc = "call"
    /\ kv' = [kv EXCEPT !.pc = "paired", !.pairs = PairUp(kv.defaults \o kv.args)]
    /\ UNCHANGED <<cfgvars, logvars, govars, setvars, lin, lout, pin, pout, rt, esc>>

\* The line is encoded.
ArgsEncode ==
    /\ kv.pc = "paired"
    /\ kv' = [kv EXCEPT !.pc = "done",
                        !.line = handleLogBytes(Now, Bytes("v"), InfoLevel, FALSE, FALSE,
                                                AsFields(kv.pairs))]
    /\ UNCHANGED <<cfgvars, logvars, govars, setvars, lin, lout, pin, pout, rt, esc>>

NextArgs == ArgsPair \/ ArgsEncode

SpecArgs == InitArgs /\ [][NextArgs]_vars

(***************************************************************************)
(* C15: when the field list of a call has odd length, the trailing key     *)
(* without a value is dropped silently: every complete key/value pair      *)
(* before it is emitted as key=value, in order, the unmatched key does not *)
(* appear in the line, and the call raises no error; also with default     *)
(* fields.                                                                 *)
(***************************************************************************)
C15_OddFieldListDropsLastKey ==
    kv.pc = "done" =>
       LET flat == kv.defaults \o kv.args
           n    == Len(flat)
           KV(j) == flat[2 * j - 1] \o <<61>> \o flat[2 * j]
       IN  /\ kv.err = ""
           /\ Len(kv.pairs) = n \div 2
           /\ \A j \in 1..(n \div 2) :
                /\ kv.pairs[j] = <<flat[2 * j - 1], flat[2 * j]>>
                /\ Occurrences(kv.line, KV(j)) # {}
           /\ (n % 2 = 1 /\ \A i \in 1..(n - 1) : flat[i] # flat[n])
                => Occurrences(kv.line, flat[n]) = {}
           /\ kv.line[Len(kv.line)] = 10

C15_Witness ==
    /\ kv.pc = "done"
    /\ kv.defaults # <<>>
    /\ kv.args = <<<<107, 101, 121, 49>>, <<118, 97, 108, 49>>, <<107, 101, 121, 50>>>>
    /\ Len(kv.pairs) = 2

(***************************************************************************)
(* C16: user fields appear in the emitted line in insertion order, each    *)
(* group in the order supplied, and two log calls given the same fields    *)
(* emit them in the same order.  (Read on the lines of src/unnamed/        *)
(* part_001, whose handleLog ranges over the Fields map.)                  *)
(***************************************************************************)
\* The keys in the order in which the Fields literal of goroutine t names them.
FieldOrder(t) == IF t = "g1" THEN <<"component">> ELSE <<"request_id", "ip">>

\* The keys of the user fields of line L, in the order of the line.
UserKeys(L) ==
    LET U == SelectSeq(L, LAMBDA p : p.k \notin FixedKeys)
    IN  [i \in 1..Len(U) |-> U[i].k]

KeysOf(F) == {f[1] : f \in F}
Range(q) == {q[i] : i \in 1..Len(q)}

C16_InsertionOrder ==
    /\ \A d \in Written : \A t \in Threads :
         LET K == UserKeys(LineOf(<<d.t, d.n>>))
         IN  Range(K) = KeysOf(FieldsOf(t)) => K = FieldOrder(t)
    /\ \A d, e \in Written :
         LET K == UserKeys(LineOf(<<d.t, d.n>>))
             J == UserKeys(LineOf(<<e.t, e.n>>))
         IN  Range(K) = Range(J) => K = J

(***************************************************************************)
(* C17: every emitted line starts with the fixed pairs in the order        *)
(* timestamp, level, message, then caller if and only if caller reporting  *)
(* is enabled, and only after these come the user fields; the caller pair  *)
(* never follows a user field.  (Read on the lines of src/log.go, 1-292.   *)
(* A caller pair is in a line only if SetCallerFrame(true, n) was called.) *)
(***************************************************************************)
C17_FixedKeyOrder ==
    \A d \in Written :
       LET L == LineOf(<<d.t, d.n>>)
       IN  /\ Len(L) >= 4
           /\ L[1].k \in {tsKey, "timestamp"}
           /\ L[2].k = "level"
           /\ L[3].k = "message"
           /\ L[Len(L)].k = "\n"
           /\ \A i \in 1..Len(L) : L[i].k = "caller" => i = 4
           /\ (\E i \in 1..Len(L) : L[i].k = "caller")
                 => sreq.op = "SetCallerFrame" /\ sreq.b
           /\ \A i \in 5..(Len(L) - 1) : L[i].k \notin FixedKeys

(***************************************************************************)
(* C18: in every emitted line, for any number of user fields including     *)
(* zero and with caller reporting on or off, consecutive pairs are         *)
(* separated by exactly one space and the byte immediately before the      *)
(* terminating newline is not a space.  (A pair's sp says that one space   *)
(* is appended after its value.)                                           *)
(***************************************************************************)
C18_SingleSpaceNoTrailing ==
    \A d \in Written :
       LET L == LineOf(<<d.t, d.n>>)
           n == Len(L)
       IN  /\ n >= 4
           /\ L[n].k = "\n"
           /\ \A i \in 1..(n - 2) : L[i].sp
           /\ ~L[n - 1].sp

(***************************************************************************)
(* C21: a log call that passes the level filter invokes the sink's write   *)
(* exactly once, with the whole line as its argument; a log call that is   *)
(* filtered out invokes the sink's write zero times and acquires no line   *)
(* buffer.                                                                 *)
(***************************************************************************)
C21_OneWritePerPassedCall ==
    /\ \A d \in done :
         /\ d.passed => (d.writes = 1 /\ d.got)
         /\ ~d.passed => (d.writes = 0 /\ ~d.got /\ ~InSink(<<d.t, d.n>>))
    /\ \A t \in Threads :
         /\ pc[t] = "write" =>
              /\ loc[t].nw = 0
              /\ CompleteLine(bufs[loc[t].buf], call[t].fields)
         /\ pc[t] \in {"writing", "unlock", "reset", "put"} => loc[t].nw = 1
         /\ pc[t] = "filter" => (loc[t].buf = 0 /\ loc[t].nw = 0)

C21_Witness ==
    /\ \E d \in done : d.passed /\ d.err = "" /\ d.writes = 1 /\ d.fields # {}
    /\ \E d \in done : ~d.passed /\ d.writes = 0

(***************************************************************************)
(* C22: a logger constructed with no options starts with minimum level     *)
(* info, color output disabled, caller reporting disabled and the default  *)
(* timestamp format, so that before any setter is called Debug produces no *)
(* output and Info produces an uncolored line without a caller pair.       *)
(* (Read on the Logger of src/log.go, 1-292, whose default timestamp       *)
(* format is time.RFC3339.)                                                *)
(***************************************************************************)
C22_Defaults ==
    nsets = 0 =>
       /\ level = InfoLevel
       /\ ~enableColor
       /\ ~enableCaller
       /\ tsFormat \in {defaultTSFormat, RFC3339}
       /\ \A d \in done :
            d.meth = "Debug" => (~d.passed /\ ~InSink(<<d.t, d.n>>))
       /\ \A d \in Written :
            d.meth = "Info" =>
               LET L == LineOf(<<d.t, d.n>>)
               IN  \A i \in 1..Len(L) : L[i].c = "" /\ L[i].k # "caller"

(***************************************************************************)
(* SpecDyn: the Logger of src/unnamed/part_001 with a goroutine that calls *)
(* SetLevel again and again while the other goroutines log ("Change        *)
(* verbosity on the fly", src/README.md:253-255).                          *)
(***************************************************************************)
MaxLevelSets == 2      \* SetLevel calls of one run

\* A goroutine calls SetLevel(l).
SetLevelBegin(l) ==
    /\ Running /\ spc = "idle" /\ nsets < MaxLevelSets
    /\ sreq' = [op |-> "SetLevel", lv |-> l, s |-> "", b |-> FALSE, n |-> 0]
    /\ spc' = "write"
    /\ nsets' = nsets + 1
    /\ UNCHANGED <<cfgvars, logvars, govars, lvlvars>>

NextDyn ==
    \/ \E l \in SetLevelArgs : SetLevelBegin(l)
    \/ SetLevel
    \/ \E t \in Threads : WithFields(t, FieldsOf(t))
    \/ \E t \in Threads, m \in Methods : LoggerCall(t, m)
    \/ \E t \in Threads, m \in Methods : FieldLoggerCall(t, m)
    \/ \E t \in Threads : Filter(t)
    \/ \E t \in Threads : Get(t)
    \/ \E t \in Threads : ReadTsFormat(t)
    \/ \E t \in Threads : WriteTime(t)
    \/ \E t \in Threads : WriteLevel(t)
    \/ \E t \in Threads : WriteMessage(t)
    \/ \E t \in Threads : CheckCaller(t)
    \/ \E t \in Threads : WriteField(t)
    \/ \E t \in Threads : WriteNewline(t)
    \/ \E t \in Threads : Lock(t)
    \/ \E t \in Threads : Write(t)
    \/ \E t \in Threads : Unlock(t)
    \/ \E t \in Threads : Reset(t)
    \/ \E t \in Threads : Put(t)
    \/ \E t \in Threads : Exit(t)

SpecDyn == Init /\ [][NextDyn]_vars

\* The level the last SetLevel call asked for; that of New() before any.
LastSetLevel == IF sreq.op = "SetLevel" THEN sreq.lv ELSE InfoLevel

(***************************************************************************)
(* C23: after SetLevel(L) has returned, every log call that starts         *)
(* afterwards, with no later SetLevel in between, is filtered against L    *)
(* (emitted iff its level >= L), whatever sequence of SetLevel and log     *)
(* calls preceded it.  (Stated for every call that takes its filter step   *)
(* while no SetLevel is in progress: it goes on to emit iff its level is   *)
(* at least the level of the last SetLevel.)                               *)
(***************************************************************************)
C23_DynamicLevel ==
    [][\A t \in Threads :
          (pc[t] = "filter" /\ pc'[t] # "filter" /\ spc = "idle")
             => (pc'[t] = "get" <=> call[t].lvl >= LastSetLevel)]_vars

C23_Witness ==
    /\ nsets = MaxLevelSets /\ spc = "idle"
    /\ \E d, e \in done :
         /\ d.seen = FatalLevel /\ ~d.passed /\ d.lvl = ErrorLevel
         /\ e.seen = DebugLevel /\ e.passed /\ e.lvl = DebugLevel
         /\ e.seen = LastSetLevel

(***************************************************************************)
(* C24: WithError(err) with a non-nil err returns a handle whose every     *)
(* emitted record carries the field error=<message text of err>;           *)
(* WithError(nil) returns a handle that adds no error field and changes no *)
(* existing field.  (Read on the Logger of src/log.go, 1-292.  A call's    *)
(* fields are those its handle was derived with; an error field counts as  *)
(* added when no WithError(err) of the run put it on a handle.)            *)
(***************************************************************************)
C24_WithErrorField ==
    \A d \in Written :
       d.recv = "field" =>
          LET U == UserFields(LineOf(<<d.t, d.n>>))
          IN  /\ <<"error", ErrText>> \in d.fields => <<"error", ErrText>> \in U
              /\ d.fields = NoFields =>
                   \A u \in U : u[1] = "error" => \E e \in done : u \in e.fields

(***************************************************************************)
(* C25: buffer-pool discipline: a line buffer taken from the pool is held  *)
(* by at most one log call from its acquisition until after that call's    *)
(* sink write has completed, it is returned to the pool on every exit path *)
(* (successful write and failed write), and every buffer resting in the    *)
(* pool is empty, so no emitted line contains bytes left over from an      *)
(* earlier record.                                                         *)
(***************************************************************************)
\* The goroutines inside handleLog between bufPool.Get() and bufPool.Put().
Holding(t) ==
    pc[t] \in {"tsfmt", "ts", "level", "message", "callerchk", "callerskip", "caller",
               "fields", "lock", "write", "writing", "unlock", "reset", "put"}

C25_BufferPoolDiscipline ==
    /\ \A t \in Threads : Holding(t) <=> loc[t].buf # 0
    /\ \A t1, t2 \in Threads :
         (t1 # t2 /\ loc[t1].buf # 0) => loc[t1].buf # loc[t2].buf
    /\ \A t \in Threads : loc[t].buf \notin pool
    /\ \A b \in pool : bufs[b] = <<>>
    /\ \A t \in Threads :
         loc[t].buf # 0 =>
            \A i \in 1..Len(bufs[loc[t].buf]) : bufs[loc[t].buf][i].o = Owner(t)
    /\ \A d \in done : d.passed => pool \cup Held # {}
    /\ \A i \in 1..Len(sink) : \A d \in done :
         (sink[i].o = <<d.t, d.n>>) => (d.passed /\ d.err = "")

C25_Witness ==
    /\ \E d \in done : d.passed /\ d.err # ""
    /\ \E d \in done : d.passed /\ d.err = ""
    /\ Quiescent
    /\ pool # {}

(***************************************************************************)
(* C26: each emitted line reflects one consistent snapshot of the color    *)
(* flag: even when SetColorOutput runs concurrently with a log call,       *)
(* either every key of that line carries ANSI color codes or none does; no *)
(* line mixes colored and uncolored keys.                                  *)
(***************************************************************************)
C26_OneColorSnapshot ==
    \A d \in Written :
       LET L == LineOf(<<d.t, d.n>>)
       IN  \A i, j \in 1..Len(L) :
              (L[i].k # "\n" /\ L[j].k # "\n") => (L[i].c = "" <=> L[j].c = "")

(***************************************************************************)
(* C27: SetCallerFrame(enabled, depth) is atomic with respect to log       *)
(* calls: a log call running concurrently with it resolves the caller      *)
(* using either the (enabled, depth) pair from before the call or the pair *)
(* from after it, never the new enabled flag combined with the old skip    *)
(* depth (or the reverse).  (The pair of New() is (false, 0), so a caller  *)
(* pair in a line is that of the depth SetCallerFrame was called with.)    *)
(***************************************************************************)
C27_CallerFrameAtomic ==
    \A i \in 1..Len(sink) :
       sink[i].k = "caller" =>
          /\ sreq.op = "SetCallerFrame" /\ sreq.b
          /\ sink[i].v = caller(sreq.n)

(***************************************************************************)
(* SpecKeys: the Logger of src/unnamed/part_001 called through handles     *)
(* whose user field is named like a fixed key.                             *)
(***************************************************************************)
FixedNames == {"timestamp", "level", "message"}

\* Fields{"timestamp": "x"}, Fields{"level": "x"}, Fields{"message": "x"}
NamedFields == {{<<n, "x">>} : n \in FixedNames}

NextKeys ==
    \/ \E t \in Threads, F \in NamedFields : WithFields(t, F)
    \/ \E t \in Threads, m \in Methods : FieldLoggerCall(t, m)
    \/ \E t \in Threads : Filter(t)
    \/ \E t \in Threads : Get(t)
    \/ \E t \in Threads : ReadTsFormat(t)
    \/ \E t \in Threads : WriteTime(t)
    \/ \E t \in Threads : WriteLevel(t)
    \/ \E t \in Threads : WriteMessage(t)
    \/ \E t \in Threads : CheckCaller(t)
    \/ \E t \in Threads : WriteField(t)
    \/ \E t \in Threads : WriteNewline(t)
    \/ \E t \in Threads : Lock(t)
    \/ \E t \in Threads : Write(t)
    \/ \E t \in Threads : Unlock(t)
    \/ \E t \in Threads : Reset(t)
    \/ \E t \in Threads : Put(t)
    \/ \E t \in Threads : Exit(t)

SpecKeys == Init /\ [][NextKeys]_vars

\* The key a pair shows before its '=': tsKey is "timestamp=".
KeyName(p) == IF p.k = tsKey THEN "timestamp" ELSE p.k

(***************************************************************************)
(* C28: every emitted line contains exactly one timestamp pair, exactly    *)
(* one level pair and exactly one message pair, and their values are the   *)
(* record's own time, level and message, even when a user field is named   *)
(* timestamp, level or message; a user field never duplicates or replaces  *)
(* a fixed pair.                                                           *)
(***************************************************************************)
C28_FixedPairsOnce ==
    \A d \in Written :
       LET L == LineOf(<<d.t, d.n>>)
           At3(n) == {i \in 1..Len(L) : KeyName(L[i]) = n}
       IN  /\ \A n \in FixedNames : Cardinality(At3(n)) = 1
           /\ \A i \in At3("timestamp") : L[i].v = defaultTSFormat
           /\ \A i \in At3("level") : L[i].v = LevelString(d.lvl)
           /\ \A i \in At3("message") : L[i].v = "msg"

(***************************************************************************)
(* SpecOrder: log calls on the Logger of src/unnamed/part_001 by two       *)
(* goroutines; each call remembers which calls had returned when it        *)
(* started.                                                                *)
(***************************************************************************)
MaxOrderCalls == 3     \* log calls of one run

\* Logger.Debug/Info/Warn/Error/Fatal: l.handleLog(msg, <level>, nil).
\* after: the calls that had returned when this one started.
OrderedCall(t, m) ==
    /\ Running /\ pc[t] = "idle" /\ Started < MaxOrderCalls
    /\ m \in MethodsOf(t)
    /\ call' = [call EXCEPT ![t] = [recv |-> "base", meth |-> m, n |-> Calls(t) + 1,
                                    lvl |-> LoggerMethodLevel(m), fields |-> NoFields,
                                    after |-> {<<d.t, d.n>> : d \in done}]]
    /\ pc' = [pc EXCEPT ![t] = "filter"]
    /\ loc' = [loc EXCEPT ![t] = NoLoc]
    /\ UNCHANGED <<cfgvars, logvars, handle, done, setvars, lvlvars>>

NextOrder ==
    \/ \E t \in Threads, m \in Methods : OrderedCall(t, m)
    \/ \E t \in Threads : Filter(t)
    \/ \E t \in Threads : Get(t)
    \/ \E t \in Threads : ReadTsFormat(t)
    \/ \E t \in Threads : WriteTime(t)
    \/ \E t \in Threads : WriteLevel(t)
    \/ \E t \in Threads : WriteMessage(t)
    \/ \E t \in Threads : CheckCaller(t)
    \/ \E t \in Threads : WriteNewline(t)
    \/ \E t \in Threads : Lock(t)
    \/ \E t \in Threads : Write(t)
    \/ \E t \in Threads : Unlock(t)
    \/ \E t \in Threads : Reset(t)
    \/ \E t \in Threads : Put(t)
    \/ \E t \in Threads : Exit(t)

SpecOrder == Init /\ [][NextOrder]_vars

(***************************************************************************)
(* C29: program order is preserved in the sink: if a log call A that       *)
(* passes the filter returns before a log call B on the same logger        *)
(* starts, then A's line appears in the sink entirely before B's line,     *)
(* whatever other threads are doing.                                       *)
(***************************************************************************)
C29_ProgramOrder ==
    \A t \in Threads :
       call[t] # NoCall =>
          \A a \in call[t].after :
             /\ \A i, j \in 1..Len(sink) :
                  (sink[i].o = a /\ sink[j].o = Owner(t)) => i < j
             /\ \A d \in done :
                  (<<d.t, d.n>> = a /\ d.passed) => InSink(a)

C29_Witness ==
    \E t \in Threads :
       /\ call[t] # NoCall
       /\ InSink(Owner(t))
       /\ \E a \in call[t].after : a[1] # t /\ InSink(a)
       /\ \E u \in Threads : u # t /\ pc[u] = "writing"

(***************************************************************************)
(* SpecLive: the Logger of src/unnamed/part_001 with log calls and         *)
(* SetWriter, the setter that takes the mutex, under fair scheduling: a    *)
(* goroutine inside handleLog or SetWriter that can take a step            *)
(* eventually takes one (the Go scheduler runs every runnable goroutine,   *)
(* and the writers return).                                                *)
(***************************************************************************)
SetWriterRequests == {r \in Requests : r.op = "SetWriter"}

ThreadLive(t) ==
    \/ Filter(t)
    \/ Get(t)
    \/ ReadTsFormat(t)
    \/ WriteTime(t)
    \/ WriteLevel(t)
    \/ WriteMessage(t)
    \/ CheckCaller(t)
    \/ WriteField(t)
    \/ WriteNewline(t)
    \/ Lock(t)
    \/ Write(t)
    \/ Unlock(t)
    \/ Reset(t)
    \/ Put(t)
    \/ Exit(t)

SetterLive == SetWriterLock \/ SetWriterAssign \/ SetWriterUnlock

NextLive ==
    \/ \E r \in SetWriterRequests : SetBegin(r)
    \/ SetterLive
    \/ \E t \in Threads : WithFields(t, FieldsOf(t))
    \/ \E t \in Threads, m \in Methods : LoggerCall(t, m)
    \/ \E t \in Threads, m \in Methods : FieldLoggerCall(t, m)
    \/ \E t \in Threads : ThreadLive(t)

SpecLive ==
    /\ Init /\ [][NextLive]_vars
    /\ \A t \in Threads : WF_vars(ThreadLive(t))
    /\ WF_vars(SetterLive)

\* Goroutine t is in no log call.
Returned(t) == pc[t] \in {"idle", "derived", "exit", "exited"}

(***************************************************************************)
(* C30: the logger mutex is never leaked: every log call and every setter  *)
(* that acquires the mutex releases it before returning, on the filtered,  *)
(* successful-write and failed-write paths alike, so provided the sink's   *)
(* write returns, every log call terminates (or the process has exited     *)
(* through Fatal) and a log call made after a failed write still reaches   *)
(* the sink's write.                                                       *)
(***************************************************************************)
C30_MutexNeverLeaked ==
    /\ [](\A t \in Threads : Returned(t) => mu # t)
    /\ [](spc = "idle" => mu # Setter)
    /\ [](\A d \in done : d.passed => d.writes = 1)
    /\ \A t \in Threads : (pc[t] = "filter") ~> (Returned(t) \/ exitStatus = 1)
    /\ (spc = "lock") ~> (spc = "idle" \/ exitStatus = 1)

C30_Witness ==
    /\ Quiescent /\ spc = "idle" /\ mu = "free"
    /\ \E d, e \in done :
         /\ d.err # "" /\ e.err # "" /\ e.writes = 1
         /\ <<d.t, d.n>> # <<e.t, e.n>>

====
